---- MODULE Spec2Model ----
(***************************************************************************)
(* TianShanOS PKI server (src/tools/pki-server/app): the CSR request       *)
(* lifecycle of main.py over the SQLite store of database.py.              *)
(*                                                                         *)
(* Every handler is an asyncio coroutine.  Each database call opens its    *)
(* own connection, runs one statement and commits, so a handler is a       *)
(* sequence of single-statement transactions with a suspension point at    *)
(* every await.  One action of this model is one such transaction together *)
(* with the synchronous code of the handler that leads up to it (that code *)
(* only touches the handler's locals).  Handlers of different calls        *)
(* interleave at these points.                                             *)
(***************************************************************************)
EXTENDS Integers, Sequences, FiniteSets, TLC

VARIABLES
    csr_requests,       \* table csr_requests, row i has id i
    certificates,       \* table certificates, in insertion order
    device_whitelist,   \* table device_whitelist, in insertion order
    audit_logs,         \* table audit_logs, in insertion order
    calls,              \* the handler invocations, and the restarts of the process, in
                        \* the order they come: arguments, locals, position, response
    settings,           \* Settings: auto_sign_enabled, require_device_token; the
                        \* zone of the host's local clock (utc_offset)
    now,                \* the clock in UTC (datetime.utcnow(), CURRENT_TIMESTAMP)
    active_tokens,      \* main.py active_tokens: session token -> expiry (0: no entry)
    ca_instance,        \* ca.py _ca_instance is not None: the CA is loaded
    ca_files            \* the issuer certificate, key and chain are on disk,
                        \* readable, and the key opens with the password

vars == <<csr_requests, certificates, device_whitelist, audit_logs, calls, settings, now,
          active_tokens, ca_instance, ca_files>>

(***************************************************************************)
(* Bounds of the model.                                                    *)
(***************************************************************************)
MaxCalls == 3       \* handler invocations in one behaviour
MaxSerial == 2      \* distinct values x509.random_serial_number() can draw
MaxTime == 2        \* clock values 1..MaxTime at startup
MaxClock == 4       \* the clock stops at MaxClock
MaxRequests == 1    \* rows of csr_requests
MaxStored == 2      \* rows of csr_requests at startup
MaxAttrs == 3       \* attributes of the subject of a CSR
MaxSan == 2         \* SAN entries of a CSR
MaxExtras == 1      \* extra IP and extra DNS names of a call
TicksPerDay == 2    \* clock ticks in a day (a tick is 12 hours)

Procs == 1..MaxCalls
Serials == 1..MaxSerial

(***************************************************************************)
(* Program constants and input domains.                                    *)
(***************************************************************************)
default_validity_days == 365

PENDING == "pending"
APPROVED == "approved"
REJECTED == "rejected"
EXPIRED == "expired"
RequestStatus == {PENDING, APPROVED, REJECTED, EXPIRED}

\* A CSR as far as the CA looks at it: does it parse, is its self-signature valid.
CSRs == {"valid", "badsig", "malformed"}
\* Device tokens; "" is the absent token (None and "" are both falsy in submit_csr).
Tokens == {"tokA", "tokB"}
SubmitTokens == Tokens \cup {""}
LifecycleToken == "tokA"
\* validity_days of a submission / an approval; 0 stands for a falsy value (None or 0).
SubmitDays == {0, 90}
ApproveDays == {0, 365}
\* validity_days of a whitelist entry.
WhitelistDays == {30}
Reasons == {"policy"}
\* Passwords a Login may carry: the admin password of the settings and another.
Passwords == {"tianshan-pki-admin", "guess"}
\* limit of a read of the audit log.
Limits == {1, 2}
\* The finite sequences over S of length at most n.
SeqsUpTo(S, n) == UNION {[1..k -> S] : k \in 0..n}
\* Subject attributes a CSR may carry, and the subjects made of them.
SubjectAttrs ==
    {[oid |-> "CN", value |-> "dev"], [oid |-> "O", value |-> "org"],
     [oid |-> "OU", value |-> "Lab"]}
Subjects == SeqsUpTo(SubjectAttrs, MaxAttrs)
\* SAN entries a CSR may carry.
SanNames == {[kind |-> "ip", value |-> "10.0.0.1"], [kind |-> "dns", value |-> "a.local"]}
CsrSans == SeqsUpTo(SanNames, MaxSan)
\* Extra names a caller may supply ("" in a scalar: the field is absent).
ExtraIps == SeqsUpTo({"10.0.0.1", "10.0.0.2", "not-an-ip"}, MaxExtras)
ExtraDns == SeqsUpTo({"a.local", "b.local"}, MaxExtras)
CertTypes == {"", "server", "client", "both", "other"}
DeviceTypes == {"", "Device", "Developer"}
\* The address of the device as the request or the connection gives it.
DeviceIp == "10.0.0.9"
\* validity_days of a client certificate.
ClientDays == {1}
\* device_id of a submission, a text as the sequence of its parts: the id of
\* a TianShanOS device, and an id that a device makes up.
TianshanDevice == <<"TIANSHAN-", "01">>
DeviceIds == {TianshanDevice, <<"client:", "alice">>, <<"alice">>}
\* name of a client certificate.
ClientName == <<"alice">>
\* Values secrets.token_urlsafe(32) can draw for a session token.
SessionTokens == {"s1", "s2", "s3"}

\* An HTTP response: code 0 while the handler has not returned.
\* certificate is the serial of the certificate in the body, private_key tells
\* whether the body carries its private key (as PEM or inside a PKCS#12 archive).
\* logs is the list of audit entries in the body (their ids), requests the
\* list of requests in the body (their ids).
\* x509 holds the fields of the signed certificate that sign_csr decides,
\* expires_at is the expiry a LoginResponse tells (0: none), client_certs the
\* certificates in the body of a client-certificate listing (their ids).
NoCert ==
    [subject |-> <<>>, san |-> <<>>, key_usage |-> {}, extended_key_usage |-> {},
     ca |-> FALSE]
NoResponse ==
    [code |-> 0, status |-> "", certificate |-> 0, detail |-> "", private_key |-> FALSE,
     logs |-> <<>>, requests |-> <<>>, x509 |-> NoCert, expires_at |-> 0,
     client_certs |-> {}]
Response(code, status, certificate, detail) ==
    [code |-> code, status |-> status, certificate |-> certificate, detail |-> detail,
     private_key |-> FALSE, logs |-> <<>>, requests |-> <<>>, x509 |-> NoCert,
     expires_at |-> 0, client_certs |-> {}]

\* The validity period a signed certificate carries (0, 0: no certificate).
NoValidity == [not_before |-> 0, not_after |-> 0]

\* The arguments of a signing as the request carries them; req_cert_type is
\* the cert_type stored with the request an approval reads ("" for a Submit).
NoSignArgs ==
    [subject |-> <<>>, san |-> <<>>, cert_type |-> "", device_type |-> "",
     ips |-> <<>>, dns |-> <<>>, req_cert_type |-> ""]

\* device_id is a text as the sequence of its parts (<<>>: none).
\* authorization is the Authorization header of the request, as the words it
\* is made of (<<>>: no header); verified tells that verify_token returned True.
\* cert_pem, not_before and not_after are the locals sign_csr's result is
\* unpacked into: the certificate (its validity period) and the two datetimes.
IdleCall ==
    [op |-> "none", pc |-> "idle", csr |-> "", device_token |-> "",
     validity_days |-> 0, auto_approve |-> FALSE, request_id |-> 0,
     serial_number |-> 0, reason |-> "", cert_id |-> 0, not_after |-> 0,
     not_before |-> 0, cert_pem |-> NoValidity, device_id |-> <<>>,
     sign_args |-> NoSignArgs, authorization |-> <<>>, verified |-> FALSE,
     response |-> NoResponse]

\* datetime.utcnow() and SQLite's CURRENT_TIMESTAMP read the clock in UTC,
\* datetime.now() reads it in the host's zone; both give naive values.
datetime_utcnow == now
datetime_now == now + settings.utc_offset

\* timedelta(days=validity_days)
timedelta_days(validity_days) == validity_days * TicksPerDay

(***************************************************************************)
(* database.py                                                             *)
(* A row that DELETE removes stays in the sequence with deleted = TRUE, so  *)
(* that row i keeps id i and AUTOINCREMENT never hands an id out twice;     *)
(* every statement reads and writes only the rows that are not deleted.     *)
(***************************************************************************)
\* INSERT INTO csr_requests: status takes the column default 'pending',
\* created_at the column default CURRENT_TIMESTAMP (t).
create_csr_request(reqs, device_id, device_token, csr_pem, validity_days, t) ==
    Append(reqs,
        [id |-> Len(reqs) + 1, device_id |-> device_id,
         device_token |-> device_token, csr_pem |-> csr_pem,
         status |-> PENDING, validity_days |-> validity_days, created_at |-> t,
         processed_at |-> 0, processed_by |-> "", reject_reason |-> ""])

\* SELECT * FROM csr_requests WHERE status = 'pending' ORDER BY created_at DESC:
\* the lists of ids the statement can return.  created_at has a resolution of
\* one second and SQL leaves the order of rows with equal keys open.
get_pending_requests(reqs) ==
    LET pending == {i \in 1..Len(reqs) : reqs[i].status = PENDING}
    IN  {f \in [1..Cardinality(pending) -> pending] :
            /\ \A i, j \in 1..Cardinality(pending) : i # j => f[i] # f[j]
            /\ \A i, j \in 1..Cardinality(pending) :
                    i < j => reqs[f[i]].created_at >= reqs[f[j]].created_at}

\* SELECT * FROM csr_requests WHERE id = ?   (0: no row)
get_request_by_id(reqs, request_id) ==
    IF request_id \in 1..Len(reqs) THEN request_id ELSE 0

\* UPDATE csr_requests SET status, processed_at, processed_by, reject_reason WHERE id = ?
\* The statement carries no condition on the current status.
update_request_status(reqs, request_id, status, t, processed_by, reject_reason) ==
    IF request_id \in 1..Len(reqs)
    THEN [reqs EXCEPT ![request_id] =
            [@ EXCEPT !.status = status, !.processed_at = t,
                      !.processed_by = processed_by, !.reject_reason = reject_reason]]
    ELSE reqs

\* A table without the UNIQUE constraint on serial_number.
serial_taken_never(certs, serial_number) == FALSE

\* certificates.serial_number is UNIQUE: the INSERT raises when the serial is present.
serial_taken(certs, serial_number) ==
    \E i \in 1..Len(certs) : ~certs[i].deleted /\ certs[i].serial_number = serial_number

\* An INSERT that writes a private key into every row.
create_certificate_with_key(certs, request_id, device_id, serial_number, validity_days, cert_pem, not_before, not_after, issued_by, private_key_pem) ==
    Append(certs,
        [id |-> Len(certs) + 1, request_id |-> request_id, device_id |-> device_id,
         serial_number |-> serial_number, validity_days |-> validity_days,
         cert_pem |-> cert_pem, not_before |-> not_before,
         not_after |-> not_after, issued_by |-> issued_by,
         private_key_pem |-> TRUE,
         revoked_at |-> 0, revoke_reason |-> "", deleted |-> FALSE])

\* INSERT INTO certificates (request_id 0: NULL; private_key_pem FALSE: NULL).
\* validity_days is not a column: it records the validity_days the signing
\* was called with.  cert_pem is the certificate as far as its validity period
\* goes; not_before and not_after are the columns of these names.
create_certificate(certs, request_id, device_id, serial_number, validity_days, cert_pem, not_before, not_after, issued_by, private_key_pem) ==
    Append(certs,
        [id |-> Len(certs) + 1, request_id |-> request_id, device_id |-> device_id,
         serial_number |-> serial_number, validity_days |-> validity_days,
         cert_pem |-> cert_pem, not_before |-> not_before,
         not_after |-> not_after, issued_by |-> issued_by,
         private_key_pem |-> private_key_pem,
         revoked_at |-> 0, revoke_reason |-> "", deleted |-> FALSE])

\* SELECT * FROM certificates WHERE id = ?   (0: no row)
get_certificate_by_id(certs, cert_id) ==
    IF cert_id \in 1..Len(certs) /\ ~certs[cert_id].deleted THEN cert_id ELSE 0

\* SELECT * FROM certificates: the ids of the rows
get_all_certificates(certs) == {i \in 1..Len(certs) : ~certs[i].deleted}

\* UPDATE certificates SET revoked_at = ?, revoke_reason = ? WHERE id = ?
\* The statement carries no condition on the current revoked_at.
revoke_certificate(certs, cert_id, reason, t) ==
    IF get_certificate_by_id(certs, cert_id) # 0
    THEN [certs EXCEPT ![cert_id] = [@ EXCEPT !.revoked_at = t, !.revoke_reason = reason]]
    ELSE certs

\* DELETE FROM certificates WHERE id = ?
delete_certificate(certs, cert_id) ==
    IF get_certificate_by_id(certs, cert_id) # 0
    THEN [certs EXCEPT ![cert_id].deleted = TRUE]
    ELSE certs

\* SELECT * FROM device_whitelist WHERE device_token = ?   (0: no row)
get_device_by_token(wl, token) ==
    LET hit == {i \in 1..Len(wl) : ~wl[i].deleted /\ wl[i].device_token = token}
    IN IF hit = {} THEN 0 ELSE CHOOSE i \in hit : TRUE

\* Mutant of update_device_last_used: the UPDATE without its WHERE clause.
update_device_last_used_all(wl, token, t) ==
    [i \in 1..Len(wl) |->
        IF ~wl[i].deleted THEN [wl[i] EXCEPT !.last_used_at = t] ELSE wl[i]]

\* UPDATE device_whitelist SET last_used_at = ? WHERE device_token = ?
update_device_last_used(wl, token, t) ==
    [i \in 1..Len(wl) |->
        IF ~wl[i].deleted /\ wl[i].device_token = token
        THEN [wl[i] EXCEPT !.last_used_at = t] ELSE wl[i]]

\* A table without the UNIQUE constraint on device_token.
device_token_taken_never(wl, token) == FALSE

\* device_whitelist.device_token is UNIQUE: the INSERT raises when the token is present.
device_token_taken(wl, token) ==
    \E i \in 1..Len(wl) : ~wl[i].deleted /\ wl[i].device_token = token

\* INSERT INTO device_whitelist
add_device_to_whitelist(wl, token, auto_approve, validity_days) ==
    Append(wl,
        [id |-> Len(wl) + 1, device_token |-> token, auto_approve |-> auto_approve,
         validity_days |-> validity_days, last_used_at |-> 0, deleted |-> FALSE])

\* DELETE FROM device_whitelist WHERE id = ?
delete_device_from_whitelist(wl, device_id) ==
    IF device_id \in 1..Len(wl) /\ ~wl[device_id].deleted
    THEN [wl EXCEPT ![device_id].deleted = TRUE]
    ELSE wl

\* INSERT INTO audit_logs.  The text column target_id holds a request id, a
\* certificate serial or a device token: target_id is the number (0 if none),
\* target_token the token ("" if none).
\* created_at takes the column default CURRENT_TIMESTAMP (t).
add_audit_log(logs, action, target_type, target_id, target_token, operator, t) ==
    Append(logs,
        [id |-> Len(logs) + 1, action |-> action, target_type |-> target_type,
         target_id |-> target_id, target_token |-> target_token, operator |-> operator,
         created_at |-> t])

\* The orders in which ORDER BY created_at DESC can return the rows: created_at
\* has a resolution of one second and SQL leaves the order of rows with equal
\* keys open.
audit_orderings(logs) ==
    {f \in [1..Len(logs) -> 1..Len(logs)] :
        /\ \A i, j \in 1..Len(logs) : i # j => f[i] # f[j]
        /\ \A i, j \in 1..Len(logs) :
                i < j => logs[f[i]].created_at >= logs[f[j]].created_at}

\* SELECT * FROM audit_logs ORDER BY created_at DESC LIMIT ?: the lists of ids
\* the statement can return.
get_audit_logs(logs, limit) ==
    {SubSeq(f, 1, IF limit < Len(logs) THEN limit ELSE Len(logs)) :
        f \in audit_orderings(logs)}

(***************************************************************************)
(* ca.py                                                                   *)
(***************************************************************************)
\* parse_csr raises on input that does not load as a CSR; it reports the
\* signature check but does not enforce it.
parse_csr_ok(csr_pem) == csr_pem # "malformed"

\* A signing that does not look at the CSR's self-signature.
csr_signature_valid_unchecked(csr_pem) == TRUE

\* sign_csr raises ValueError when the CSR's self-signature is invalid.
csr_signature_valid(csr_pem) == csr_pem = "valid"

\* A signing that dates the certificate one tick back and returns the clock.
sign_csr_validity_backdated(utcnow, validity_days) ==
    [cert_pem |-> [not_before |-> utcnow - 1,
                   not_after |-> utcnow + timedelta_days(validity_days)],
     not_before |-> utcnow,
     not_after |-> utcnow + timedelta_days(validity_days)]

\* sign_csr, lines 106-108, 201-202 and 236 of ca.py: not_before is the clock
\* in UTC, not_after is not_before + timedelta(days=validity_days); the builder
\* takes both and both are returned beside the certificate.  Times are whole
\* ticks: the fraction of a second, which the encoding of the certificate
\* drops and the returned datetimes keep, is below the resolution of the clock.
sign_csr_validity(utcnow, validity_days) ==
    LET not_before == utcnow
        not_after == utcnow + timedelta_days(validity_days)
    IN  [cert_pem |-> [not_before |-> not_before, not_after |-> not_after],
         not_before |-> not_before,
         not_after |-> not_after]

\* generate_client_cert, lines 279-281 of ca.py: the same period for a client
\* certificate.
generate_client_cert_validity(utcnow, validity_days) ==
    LET not_before == utcnow
        not_after == utcnow + timedelta_days(validity_days)
    IN  [cert_pem |-> [not_before |-> not_before, not_after |-> not_after],
         not_before |-> not_before,
         not_after |-> not_after]

(***************************************************************************)
(* Initial state: empty tables, no session, no call in progress.  The      *)
(* settings are read once from the environment and never change, and so is *)
(* the zone of the host.                                                    *)
(***************************************************************************)
\* ca.py lines 361-370: get_ca() returns the instance there is, and builds
\* one when there is none; CertificateAuthority() opens the three files (lines
\* 28-44) and raises when one of them fails.  The value is the instance after
\* the call: FALSE when the call has raised.
get_ca(instance, files) == instance \/ files

\* main.py lines 90-99: startup calls get_ca() and prints the exception it
\* raises: the process goes on without an instance.
startup(files) == get_ca(FALSE, files)

\* Zones of the host: UTC, and twelve hours ahead of UTC.
UtcOffsets == {0, 1}

InitWith(environments, times) ==
    /\ csr_requests = <<>>
    /\ certificates = <<>>
    /\ device_whitelist = <<>>
    /\ audit_logs = <<>>
    /\ calls = [p \in Procs |-> IdleCall]
    /\ settings \in environments
    /\ now \in times
    /\ active_tokens = [token \in SessionTokens |-> 0]
    /\ ca_files = TRUE
    /\ ca_instance = startup(ca_files)

\* Any signing policy, on a host whose zone is UTC.
PolicySettings ==
    [auto_sign_enabled : BOOLEAN, require_device_token : BOOLEAN, utc_offset : {0}]

\* The signing policy of config.py (lines 26-27), on a host in any zone.
ZoneSettings ==
    [auto_sign_enabled : {FALSE}, require_device_token : {TRUE}, utc_offset : UtcOffsets]

\* The settings of config.py (lines 26-27), on a host whose zone is UTC.
DefaultSettings ==
    [auto_sign_enabled |-> FALSE, require_device_token |-> TRUE, utc_offset |-> 0]

Init == InitWith(PolicySettings, {1})

\* The server is started at any time.
InitPolicy == InitWith(PolicySettings, 1..MaxTime)

\* Rows of csr_requests there are or may come from the submissions in progress.
RowsAhead ==
    Len(csr_requests)
    + Cardinality({q \in Procs : /\ calls[q].op = "submit"
                                 /\ calls[q].pc \in {"s_start", "s_last_used", "s_create"}})

\* A handler runs from its entry to its first await without suspension: while
\* a call has arrived and not yet run that first segment, nothing else moves.
Settled == \A q \in Procs : calls[q].pc \notin {"s_start", "w_start"}

\* Calls are numbered in the order they arrive.
CanStart(p) ==
    /\ Settled
    /\ calls[p].pc = "idle"
    /\ \A q \in Procs : q < p => calls[q].pc # "idle"

\* A handler behind Depends(verify_token) starts when verify_token has
\* returned True.
Depends_on_arrival(p) ==
    Settled /\ calls[p].pc \in {"idle", "t_passed"}

Depends_verify_token(p) ==
    Settled /\ calls[p].pc = "t_passed"

\* The specifications that leave the sessions out start such a handler on
\* arrival: their callers hold a session.
CanStartAdmin(p) == CanStart(p) \/ Depends_verify_token(p)

\* The handler returns (or raises): its locals are gone, the arguments and the
\* response stay on record.
Return(p, resp) ==
    calls' = [calls EXCEPT ![p] =
        [@ EXCEPT !.pc = "done", !.response = resp, !.csr = "", !.device_token = "",
                  !.validity_days = 0, !.auto_approve = FALSE, !.serial_number = 0,
                  !.reason = "", !.not_after = 0, !.not_before = 0,
                  !.cert_pem = NoValidity, !.device_id = <<>>]]

Tick ==
    /\ Settled
    /\ now < MaxClock
    /\ now' = now + 1
    /\ UNCHANGED <<csr_requests, certificates, device_whitelist, audit_logs, calls, settings,
                   active_tokens, ca_instance, ca_files>>

(***************************************************************************)
(* main.py: submit_csr  (POST /api/csr/submit, called by devices)          *)
(***************************************************************************)
\* A token that counts as recognised whenever one is given.
token_known_given(token, device) == token # ""

\* Lines 176-186: the token is recognised when one is given and has a whitelist
\* row (device is the row's index, 0 for no row).
token_known(token, device) == token # "" /\ device # 0

\* Mutant of token_refused: only an absent token is refused, an unknown one passes.
token_refused_absent_only(token, device, require_device_token) ==
    token = "" /\ require_device_token

\* Lines 183-186: HTTP 403 for an absent or unknown token when tokens are required.
token_refused(token, device, require_device_token) ==
    ~token_known(token, device) /\ require_device_token

\* Lines 173, 180-181, 189-190: the approval decision.
auto_approve_decision(known, device_auto_approve, auto_sign_enabled) ==
    (known /\ device_auto_approve) \/ auto_sign_enabled

\* Mutant of validity_decision: the whitelist entry's validity is not applied.
validity_decision_requested(known, device_auto_approve, device_validity_days, requested_days) ==
    IF requested_days # 0 THEN requested_days ELSE default_validity_days

\* Lines 174, 180-182: the validity of the request.
validity_decision(known, device_auto_approve, device_validity_days, requested_days) ==
    IF known /\ device_auto_approve THEN device_validity_days
    ELSE IF requested_days # 0 THEN requested_days
    ELSE default_validity_days

\* Mutant of submit_approved_response: the certificate is left out of the response.
submit_approved_response_bare(cert_pem) ==
    Response(200, APPROVED, 0, "Certificate issued automatically")

\* Lines 245-251: the response of an automatic issuance carries the certificate.
submit_approved_response(cert_pem) ==
    Response(200, APPROVED, cert_pem, "Certificate issued automatically")

\* Line 253: the except clause of the automatic issuance rejects the request.
submit_on_error(reqs, request_id, t, e) ==
    update_request_status(reqs, request_id, REJECTED, t, "auto", e)

\* The request arrives: req.device_id, req.csr_pem, req.device_token,
\* req.validity_days.
SubmitCall(p, device_id, csr, token, days) ==
    /\ CanStart(p)
    /\ RowsAhead < MaxRequests
    /\ calls' = [calls EXCEPT ![p] =
            [@ EXCEPT !.op = "submit", !.pc = "s_start", !.device_id = device_id,
                      !.csr = csr, !.device_token = token, !.validity_days = days]]
    /\ UNCHANGED <<csr_requests, certificates, device_whitelist, audit_logs, settings, now, active_tokens,
                   ca_instance, ca_files>>

\* Lines 164-190: parse the CSR, resolve validity_days, look the token up.
\* The whitelist row read here is a snapshot: the decision uses it even if
\* the row changes before the handler goes on.
SubmitStart(p) ==
    /\ calls[p].pc = "s_start"
    /\  LET token == calls[p].device_token
            device == get_device_by_token(device_whitelist, token)
            known == token_known(token, device)
            dev_auto == IF device # 0 THEN device_whitelist[device].auto_approve ELSE FALSE
            dev_days == IF device # 0 THEN device_whitelist[device].validity_days ELSE 0
        IN  IF ~get_ca(ca_instance, ca_files)
            THEN Return(p, Response(500, "", 0, "Internal Server Error"))
            ELSE IF ~parse_csr_ok(calls[p].csr)
            THEN Return(p, Response(400, "", 0, "Invalid CSR"))
            ELSE IF token_refused(token, device, settings.require_device_token)
            THEN Return(p, Response(403, "", 0,
                            IF token # "" THEN "Device token not in whitelist"
                                          ELSE "Device token required"))
            ELSE calls' = [calls EXCEPT ![p] =
                    [@ EXCEPT !.pc = IF known THEN "s_last_used" ELSE "s_create",
                              !.auto_approve = auto_approve_decision(known, dev_auto,
                                                    settings.auto_sign_enabled),
                              !.validity_days = validity_decision(known, dev_auto, dev_days,
                                                    calls[p].validity_days)]]
    /\ ca_instance' = get_ca(ca_instance, ca_files)
    /\ UNCHANGED <<csr_requests, certificates, device_whitelist, audit_logs, settings, now, active_tokens,
                   ca_files>>

\* Line 179: await update_device_last_used(req.device_token)
SubmitLastUsed(p) ==
    /\ calls[p].pc = "s_last_used"
    /\ Settled
    /\ device_whitelist' = update_device_last_used(device_whitelist, calls[p].device_token,
                                                datetime_now)
    /\ calls' = [calls EXCEPT ![p].pc = "s_create"]
    /\ UNCHANGED <<csr_requests, certificates, audit_logs, settings, now, active_tokens,
                   ca_instance, ca_files>>

\* Lines 193-203: await create_csr_request(...)
SubmitCreate(p) ==
    /\ calls[p].pc = "s_create"
    /\ Settled
    /\ csr_requests' = create_csr_request(csr_requests, calls[p].device_id,
                                          calls[p].device_token,
                                          calls[p].csr, calls[p].validity_days,
                                          datetime_utcnow)
    /\ calls' = [calls EXCEPT ![p].pc = "s_audit", ![p].request_id = Len(csr_requests) + 1]
    /\ UNCHANGED <<certificates, device_whitelist, audit_logs, settings, now, active_tokens,
                   ca_instance, ca_files>>

\* Lines 205-212 and 256-260: audit the submission; without auto-approval
\* the handler returns "pending".
SubmitAudit(p) ==
    /\ calls[p].pc = "s_audit"
    /\ Settled
    /\ audit_logs' = add_audit_log(audit_logs, "CSR_SUBMIT", "csr_request",
                                   calls[p].request_id, "", "device",
                                    datetime_utcnow)
    /\ IF calls[p].auto_approve
       THEN calls' = [calls EXCEPT ![p].pc = "s_approve"]
       ELSE Return(p, Response(200, "pending", 0, "CSR submitted, waiting for approval"))
    /\ UNCHANGED <<csr_requests, certificates, device_whitelist, settings, now, active_tokens,
                   ca_instance, ca_files>>

\* Lines 213-226: sign, then await update_request_status(APPROVED, "auto").
\* sign_csr raises on an invalid CSR signature or a failure of the crypto
\* library; the UPDATE can raise (e.g. "database is locked").  Either way
\* control passes to the except clause of line 252.
SubmitApprove(p) ==
    /\ calls[p].pc = "s_approve"
    /\ Settled
    /\ \E serial \in Serials, fault \in {"none", "sign", "db"} :
        IF ~csr_signature_valid(calls[p].csr) \/ fault = "sign"
        THEN /\ calls' = [calls EXCEPT ![p].pc = "s_except", ![p].reason = "sign_error"]
             /\ UNCHANGED csr_requests
        ELSE IF fault = "db"
        THEN /\ calls' = [calls EXCEPT ![p].pc = "s_except", ![p].reason = "db_error"]
             /\ UNCHANGED csr_requests
        ELSE /\ csr_requests' = update_request_status(csr_requests, calls[p].request_id,
                                                      APPROVED, datetime_now, "auto", "")
             /\ LET signed == sign_csr_validity(datetime_utcnow, calls[p].validity_days)
                IN  calls' = [calls EXCEPT ![p].pc = "s_store", ![p].serial_number = serial,
                                         ![p].cert_pem = signed.cert_pem,
                                         ![p].not_before = signed.not_before,
                                         ![p].not_after = signed.not_after]
    /\ UNCHANGED <<certificates, device_whitelist, audit_logs, settings, now, active_tokens,
                   ca_instance, ca_files>>

\* Lines 228-237: await create_certificate(..., issued_by="auto")
SubmitStore(p) ==
    /\ calls[p].pc = "s_store"
    /\ Settled
    /\ \E fault \in BOOLEAN :
        IF fault \/ serial_taken(certificates, calls[p].serial_number)
        THEN /\ calls' = [calls EXCEPT ![p].pc = "s_except", ![p].reason = "db_error"]
             /\ UNCHANGED certificates
        ELSE /\ certificates' = create_certificate(certificates, calls[p].request_id,
                                    calls[p].device_id,
                                    calls[p].serial_number, calls[p].validity_days,
                                    calls[p].cert_pem, calls[p].not_before,
                                    calls[p].not_after, "auto", FALSE)
             /\ calls' = [calls EXCEPT ![p].pc = "s_issued"]
    /\ UNCHANGED <<csr_requests, device_whitelist, audit_logs, settings, now, active_tokens,
                   ca_instance, ca_files>>

\* Lines 239-251: audit the issuance and return "approved" with the certificate.
SubmitIssued(p) ==
    /\ calls[p].pc = "s_issued"
    /\ Settled
    /\ \E fault \in BOOLEAN :
        IF fault
        THEN /\ calls' = [calls EXCEPT ![p].pc = "s_except", ![p].reason = "db_error"]
             /\ UNCHANGED audit_logs
        ELSE /\ audit_logs' = add_audit_log(audit_logs, "CERT_ISSUED", "certificate",
                                            calls[p].serial_number, "", "auto",
                                    datetime_utcnow)
             /\ Return(p, submit_approved_response(calls[p].serial_number))
    /\ UNCHANGED <<csr_requests, certificates, device_whitelist, settings, now, active_tokens,
                   ca_instance, ca_files>>

\* Lines 252-254: except Exception: await update_request_status(REJECTED, "auto", str(e)),
\* then HTTP 500 "Auto-sign failed".  If this UPDATE raises too, its exception
\* leaves the handler instead and the framework answers with a plain 500.
SubmitExcept(p) ==
    /\ calls[p].pc = "s_except"
    /\ Settled
    /\ \E fault \in BOOLEAN :
        IF fault
        THEN /\ UNCHANGED csr_requests
             /\ Return(p, Response(500, "", 0, "Internal Server Error"))
        ELSE /\ csr_requests' = submit_on_error(csr_requests, calls[p].request_id,
                                                datetime_now, calls[p].reason)
             /\ Return(p, Response(500, "", 0, "Auto-sign failed"))
    /\ UNCHANGED <<certificates, device_whitelist, audit_logs, settings, now, active_tokens,
                   ca_instance, ca_files>>

(***************************************************************************)
(* main.py: approve_request  (POST /api/requests/{id}/approve)             *)
(***************************************************************************)
\* Mutant of already_processed: only a rejected request counts as processed.
already_processed_rejected_only(status) == status = REJECTED

\* Lines 375-376 and 445-446: a request that is not pending is not processed again.
already_processed(status) == status # PENDING

\* Mutant of approve_on_error: the except clause rejects the request, as the
\* one of submit_csr does.
approve_on_error_rejects(reqs, request_id, t, e) ==
    update_request_status(reqs, request_id, REJECTED, t, "admin", e)

\* Lines 428-429: the except clause of approve_request only reports the error.
approve_on_error(reqs, request_id, t, e) == reqs

\* models.py line 35: validity_days: Optional[int] = Field(365).  field is the
\* member of the JSON body (<<>>: the body has no such member, <<0>>: null or
\* 0); a body without the member gives 365.
CSRApproveRequest_validity_days(field) ==
    IF field = <<>> THEN 365 ELSE field[1]

\* Lines 369-389: await get_request_by_id; 404 / 400 unless the row read is
\* pending; resolve validity_days from the override or the row.
ApproveRead(p, rid, days) ==
    /\ CanStartAdmin(p)
    /\  LET c0 == [calls[p] EXCEPT !.op = "approve", !.request_id = rid]
            row == get_request_by_id(csr_requests, rid)
        IN  IF ~get_ca(ca_instance, ca_files)
            THEN calls' = [calls EXCEPT ![p] =
                    [c0 EXCEPT !.pc = "done", !.response = Response(500, "", 0, "Internal Server Error")]]
            ELSE IF row = 0
            THEN calls' = [calls EXCEPT ![p] =
                    [c0 EXCEPT !.pc = "done",
                               !.response = Response(404, "", 0, "Request not found")]]
            ELSE IF already_processed(csr_requests[row].status)
            THEN calls' = [calls EXCEPT ![p] =
                    [c0 EXCEPT !.pc = "done",
                               !.response = Response(400, "", 0, "Request already processed")]]
            ELSE calls' = [calls EXCEPT ![p] =
                    [c0 EXCEPT !.pc = "a_approve",
                               !.device_id = csr_requests[row].device_id,
                               !.csr = csr_requests[row].csr_pem,
                               !.validity_days = IF days # 0 THEN days
                                                 ELSE csr_requests[row].validity_days]]
    /\ ca_instance' = get_ca(ca_instance, ca_files)
    /\ UNCHANGED <<csr_requests, certificates, device_whitelist, audit_logs, settings, now, active_tokens,
                   ca_files>>

\* Lines 391-404: sign, then await update_request_status(APPROVED, "admin").
\* An exception anywhere in the try block becomes HTTP 500 (line 428).
ApproveStatus(p) ==
    /\ calls[p].pc = "a_approve"
    /\ Settled
    /\ \E serial \in Serials, fault \in {"none", "sign", "db"} :
        IF ~csr_signature_valid(calls[p].csr) \/ fault = "sign"
        THEN /\ csr_requests' = approve_on_error(csr_requests, calls[p].request_id,
                                                 datetime_now, "sign_error")
             /\ Return(p, Response(500, "", 0, "Signing failed: sign_error"))
        ELSE IF fault = "db"
        THEN /\ csr_requests' = approve_on_error(csr_requests, calls[p].request_id,
                                                 datetime_now, "db_error")
             /\ Return(p, Response(500, "", 0, "Signing failed: db_error"))
        ELSE /\ csr_requests' = update_request_status(csr_requests, calls[p].request_id,
                                                      APPROVED, datetime_now, "admin", "")
             /\ LET signed == sign_csr_validity(datetime_utcnow, calls[p].validity_days)
                IN  calls' = [calls EXCEPT ![p].pc = "a_store", ![p].serial_number = serial,
                                         ![p].cert_pem = signed.cert_pem,
                                         ![p].not_before = signed.not_before,
                                         ![p].not_after = signed.not_after]
    /\ UNCHANGED <<certificates, device_whitelist, audit_logs, settings, now, active_tokens,
                   ca_instance, ca_files>>

\* Lines 406-415: await create_certificate(..., issued_by="admin")
ApproveStore(p) ==
    /\ calls[p].pc = "a_store"
    /\ Settled
    /\ \E fault \in BOOLEAN :
        IF fault \/ serial_taken(certificates, calls[p].serial_number)
        THEN /\ Return(p, Response(500, "", 0, "Signing failed: db_error"))
             /\ csr_requests' = approve_on_error(csr_requests, calls[p].request_id,
                                                 datetime_now, "db_error")
             /\ UNCHANGED certificates
        ELSE /\ certificates' = create_certificate(certificates, calls[p].request_id,
                                    calls[p].device_id,
                                    calls[p].serial_number, calls[p].validity_days,
                                    calls[p].cert_pem, calls[p].not_before,
                                    calls[p].not_after, "admin", FALSE)
             /\ calls' = [calls EXCEPT ![p].pc = "a_issued"]
             /\ UNCHANGED csr_requests
    /\ UNCHANGED <<device_whitelist, audit_logs, settings, now, active_tokens,
                   ca_instance, ca_files>>

\* Lines 417-427: audit the issuance and return.
ApproveIssued(p) ==
    /\ calls[p].pc = "a_issued"
    /\ Settled
    /\ \E fault \in BOOLEAN :
        IF fault
        THEN /\ Return(p, Response(500, "", 0, "Signing failed: db_error"))
             /\ csr_requests' = approve_on_error(csr_requests, calls[p].request_id,
                                                 datetime_now, "db_error")
             /\ UNCHANGED audit_logs
        ELSE /\ audit_logs' = add_audit_log(audit_logs, "CERT_ISSUED", "certificate",
                                            calls[p].serial_number, "", "admin",
                                    datetime_utcnow)
             /\ Return(p, Response(200, "", calls[p].serial_number, "Certificate issued"))
             /\ UNCHANGED csr_requests
    /\ UNCHANGED <<certificates, device_whitelist, settings, now, active_tokens,
                   ca_instance, ca_files>>

(***************************************************************************)
(* main.py: reject_request  (POST /api/requests/{id}/reject)               *)
(***************************************************************************)
\* Lines 440-446: await get_request_by_id; 404 / 400 unless the row read is pending.
RejectRead(p, rid, reason) ==
    /\ CanStartAdmin(p)
    /\  LET c0 == [calls[p] EXCEPT !.op = "reject", !.request_id = rid]
            row == get_request_by_id(csr_requests, rid)
        IN  IF row = 0
            THEN calls' = [calls EXCEPT ![p] =
                    [c0 EXCEPT !.pc = "done",
                               !.response = Response(404, "", 0, "Request not found")]]
            ELSE IF already_processed(csr_requests[row].status)
            THEN calls' = [calls EXCEPT ![p] =
                    [c0 EXCEPT !.pc = "done",
                               !.response = Response(400, "", 0, "Request already processed")]]
            ELSE calls' = [calls EXCEPT ![p] = [c0 EXCEPT !.pc = "r_reject", !.reason = reason]]
    /\ UNCHANGED <<csr_requests, certificates, device_whitelist, audit_logs, settings, now, active_tokens,
                   ca_instance, ca_files>>

\* Line 448: await update_request_status(REJECTED, "admin", req.reason)
RejectStatus(p) ==
    /\ calls[p].pc = "r_reject"
    /\ Settled
    /\ csr_requests' = update_request_status(csr_requests, calls[p].request_id,
                                             REJECTED, datetime_now, "admin", calls[p].reason)
    /\ calls' = [calls EXCEPT ![p].pc = "r_audit"]
    /\ UNCHANGED <<certificates, device_whitelist, audit_logs, settings, now, active_tokens,
                   ca_instance, ca_files>>

\* Lines 450-456: audit the rejection and return.
RejectAudit(p) ==
    /\ calls[p].pc = "r_audit"
    /\ Settled
    /\ audit_logs' = add_audit_log(audit_logs, "CSR_REJECTED", "csr_request",
                                   calls[p].request_id, "", "admin",
                                    datetime_utcnow)
    /\ Return(p, Response(200, "", 0, "Request rejected"))
    /\ UNCHANGED <<csr_requests, certificates, device_whitelist, settings, now, active_tokens,
                   ca_instance, ca_files>>

(***************************************************************************)
(* main.py: list_requests  (GET /api/requests)                             *)
(***************************************************************************)
\* Lines 339-340: await get_pending_requests()
ListPending(p) ==
    /\ CanStartAdmin(p)
    /\ \E rows \in get_pending_requests(csr_requests) :
        calls' = [calls EXCEPT ![p] =
            [@ EXCEPT !.op = "list_requests", !.pc = "done",
                      !.response = [Response(200, "", 0, "") EXCEPT !.requests = rows]]]
    /\ UNCHANGED <<csr_requests, certificates, device_whitelist, audit_logs, settings, now, active_tokens,
                   ca_instance, ca_files>>

(***************************************************************************)
(* main.py: get_csr_status  (GET /api/csr/status/{id})                     *)
(***************************************************************************)
\* SELECT cert_pem FROM certificates WHERE request_id = ?  (fetchone; 0: no row)
cert_of_request(certs, request_id) ==
    LET hit == {i \in 1..Len(certs) : ~certs[i].deleted /\ certs[i].request_id = request_id}
    IN IF hit = {} THEN 0
       ELSE certs[CHOOSE i \in hit : \A j \in hit : i <= j].serial_number

\* Lines 270-281 and 294-297: await get_request_by_id; a pending or rejected
\* status is returned at once, an approved one leads to the certificate query.
StatusRead(p, rid) ==
    /\ CanStart(p)
    /\  LET c0 == [calls[p] EXCEPT !.op = "status", !.request_id = rid]
            row == get_request_by_id(csr_requests, rid)
        IN  IF ~get_ca(ca_instance, ca_files)
            THEN calls' = [calls EXCEPT ![p] =
                    [c0 EXCEPT !.pc = "done", !.response = Response(500, "", 0, "Internal Server Error")]]
            ELSE IF row = 0
            THEN calls' = [calls EXCEPT ![p] =
                    [c0 EXCEPT !.pc = "done",
                               !.response = Response(404, "", 0, "Request not found")]]
            ELSE IF csr_requests[row].status = APPROVED
            THEN calls' = [calls EXCEPT ![p] = [c0 EXCEPT !.pc = "g_cert"]]
            ELSE calls' = [calls EXCEPT ![p] =
                    [c0 EXCEPT !.pc = "done",
                               !.response = Response(200, csr_requests[row].status, 0,
                                                     csr_requests[row].reject_reason)]]
    /\ ca_instance' = get_ca(ca_instance, ca_files)
    /\ UNCHANGED <<csr_requests, certificates, device_whitelist, audit_logs, settings, now, active_tokens,
                   ca_files>>

\* Lines 282-293: the certificate of an approved request, if a row exists.
StatusCert(p) ==
    /\ calls[p].pc = "g_cert"
    /\ Settled
    /\ Return(p, Response(200, APPROVED,
                          cert_of_request(certificates, calls[p].request_id), ""))
    /\ UNCHANGED <<csr_requests, certificates, device_whitelist, audit_logs, settings, now, active_tokens,
                   ca_instance, ca_files>>

(***************************************************************************)
(* main.py: add_to_whitelist  (POST /api/whitelist)                        *)
(***************************************************************************)
\* The request arrives: req.device_token, req.auto_approve, req.validity_days.
WhitelistAddCall(p, token, auto, days) ==
    /\ CanStartAdmin(p)
    /\ calls' = [calls EXCEPT ![p] =
            [@ EXCEPT !.op = "whitelist_add", !.pc = "w_start", !.device_token = token,
                      !.auto_approve = auto, !.validity_days = days]]
    /\ UNCHANGED <<csr_requests, certificates, device_whitelist, audit_logs, settings, now, active_tokens,
                   ca_instance, ca_files>>

\* Lines 643-645: await get_device_by_token; 400 if the token has a row.
WhitelistAddRead(p) ==
    /\ calls[p].pc = "w_start"
    /\ IF get_device_by_token(device_whitelist, calls[p].device_token) # 0
       THEN Return(p, Response(400, "", 0, "Token already exists"))
       ELSE calls' = [calls EXCEPT ![p].pc = "w_insert"]
    /\ UNCHANGED <<csr_requests, certificates, device_whitelist, audit_logs, settings, now, active_tokens,
                   ca_instance, ca_files>>

\* Lines 647-653: await add_device_to_whitelist.  device_token is UNIQUE: the
\* INSERT raises when another call has inserted the token meanwhile.
WhitelistAddInsert(p) ==
    /\ calls[p].pc = "w_insert"
    /\ Settled
    /\ IF device_token_taken(device_whitelist, calls[p].device_token)
       THEN /\ Return(p, Response(500, "", 0, "Internal Server Error"))
            /\ UNCHANGED device_whitelist
       ELSE /\ device_whitelist' = add_device_to_whitelist(device_whitelist,
                    calls[p].device_token, calls[p].auto_approve, calls[p].validity_days)
            /\ calls' = [calls EXCEPT ![p].pc = "w_audit"]
    /\ UNCHANGED <<csr_requests, certificates, audit_logs, settings, now, active_tokens,
                   ca_instance, ca_files>>

\* Lines 655-661: audit the addition and return.
WhitelistAddAudit(p) ==
    /\ calls[p].pc = "w_audit"
    /\ Settled
    /\ audit_logs' = add_audit_log(audit_logs, "WHITELIST_ADD", "device",
                                   0, calls[p].device_token, "admin",
                                    datetime_utcnow)
    /\ Return(p, Response(200, "", 0, "Device added"))
    /\ UNCHANGED <<csr_requests, certificates, device_whitelist, settings, now, active_tokens,
                   ca_instance, ca_files>>

(***************************************************************************)
(* main.py: revoke_cert  (POST /api/certificates/{id}/revoke)              *)
(***************************************************************************)
\* Lines 613-614: a certificate whose revoked_at is set is not revoked again.
already_revoked(revoked_at) == revoked_at # 0

\* Lines 609-614: await get_certificate_by_id; 404 / 400 unless the row read
\* is not revoked.
RevokeRead(p, cid, reason) ==
    /\ CanStartAdmin(p)
    /\  LET c0 == [calls[p] EXCEPT !.op = "revoke", !.cert_id = cid]
            row == get_certificate_by_id(certificates, cid)
        IN  IF row = 0
            THEN calls' = [calls EXCEPT ![p] =
                    [c0 EXCEPT !.pc = "done",
                               !.response = Response(404, "", 0, "Certificate not found")]]
            ELSE IF already_revoked(certificates[row].revoked_at)
            THEN calls' = [calls EXCEPT ![p] =
                    [c0 EXCEPT !.pc = "done",
                               !.response = Response(400, "", 0, "Certificate already revoked")]]
            ELSE calls' = [calls EXCEPT ![p] =
                    [c0 EXCEPT !.pc = "v_revoke", !.reason = reason,
                               !.serial_number = certificates[row].serial_number]]
    /\ UNCHANGED <<csr_requests, certificates, device_whitelist, audit_logs, settings, now, active_tokens,
                   ca_instance, ca_files>>

\* Line 616: await revoke_certificate(cert_id, req.reason, "admin")
RevokeWrite(p) ==
    /\ calls[p].pc = "v_revoke"
    /\ Settled
    /\ certificates' = revoke_certificate(certificates, calls[p].cert_id, calls[p].reason,
                                          datetime_now)
    /\ calls' = [calls EXCEPT ![p].pc = "v_audit"]
    /\ UNCHANGED <<csr_requests, device_whitelist, audit_logs, settings, now, active_tokens,
                   ca_instance, ca_files>>

\* Lines 618-624: audit the revocation and return.
RevokeAudit(p) ==
    /\ calls[p].pc = "v_audit"
    /\ Settled
    /\ audit_logs' = add_audit_log(audit_logs, "CERT_REVOKED", "certificate",
                                   calls[p].serial_number, "", "admin", datetime_utcnow)
    /\ Return(p, Response(200, "", 0, "Certificate revoked"))
    /\ UNCHANGED <<csr_requests, certificates, device_whitelist, settings, now, active_tokens,
                   ca_instance, ca_files>>

(***************************************************************************)
(* main.py: delete_cert  (DELETE /api/certificates/{id})                   *)
(***************************************************************************)
\* Lines 579-582: the certificate may be deleted when it is expired or revoked.
\* not_after was stamped by sign_csr from datetime.utcnow(); local_now is
\* datetime.now().
may_delete(not_after, revoked_at, local_now) ==
    LET is_expired == not_after < local_now
        is_revoked == revoked_at # 0
    IN is_expired \/ is_revoked

\* Lines 574-588: await get_certificate_by_id; 404 / 400 unless the row read
\* is expired or revoked.
DeleteRead(p, cid) ==
    /\ CanStartAdmin(p)
    /\  LET c0 == [calls[p] EXCEPT !.op = "delete", !.cert_id = cid]
            row == get_certificate_by_id(certificates, cid)
        IN  IF row = 0
            THEN calls' = [calls EXCEPT ![p] =
                    [c0 EXCEPT !.pc = "done",
                               !.response = Response(404, "", 0, "Certificate not found")]]
            ELSE IF ~may_delete(certificates[row].not_after, certificates[row].revoked_at,
                                datetime_now)
            THEN calls' = [calls EXCEPT ![p] =
                    [c0 EXCEPT !.pc = "done",
                               !.response = Response(400, "", 0, "Not expired or revoked")]]
            ELSE calls' = [calls EXCEPT ![p] =
                    [c0 EXCEPT !.pc = "d_delete",
                               !.serial_number = certificates[row].serial_number]]
    /\ UNCHANGED <<csr_requests, certificates, device_whitelist, audit_logs, settings, now, active_tokens,
                   ca_instance, ca_files>>

\* Line 590: await delete_certificate(cert_id)
DeleteWrite(p) ==
    /\ calls[p].pc = "d_delete"
    /\ Settled
    /\ certificates' = delete_certificate(certificates, calls[p].cert_id)
    /\ calls' = [calls EXCEPT ![p].pc = "d_audit"]
    /\ UNCHANGED <<csr_requests, device_whitelist, audit_logs, settings, now, active_tokens,
                   ca_instance, ca_files>>

\* Lines 592-598: audit the deletion and return.
DeleteAudit(p) ==
    /\ calls[p].pc = "d_audit"
    /\ Settled
    /\ audit_logs' = add_audit_log(audit_logs, "CERT_DELETED", "certificate",
                                   calls[p].serial_number, "", "admin", datetime_utcnow)
    /\ Return(p, Response(200, "", 0, "Certificate deleted"))
    /\ UNCHANGED <<csr_requests, certificates, device_whitelist, settings, now, active_tokens,
                   ca_instance, ca_files>>

(***************************************************************************)
(* main.py: generate_client_cert  (POST /api/client-certs/generate)        *)
(***************************************************************************)
\* Line 780: device_id = f"client:{req.name}"
client_device_id(name) == <<"client:">> \o name

\* Line 792: the key generated on the server is stored with the certificate.
client_private_key_pem(key_pem) == key_pem

\* Lines 801-812: the response carries the certificate, the private key and
\* the PKCS#12 archive with its password.
generate_response(serial_number) ==
    [Response(200, "", serial_number, "Client certificate issued")
        EXCEPT !.private_key = TRUE]

\* Lines 771-793: ca.generate_client_cert draws a key pair and a serial and
\* signs, then await create_certificate(request_id=None, private_key_pem=key_pem).
\* An exception in the try block becomes HTTP 500 (line 815).
GenerateStore(p, days) ==
    /\ CanStartAdmin(p)
    /\ \E serial \in Serials, fault \in BOOLEAN :
        LET c0 == [calls[p] EXCEPT !.op = "generate"]
        IN  IF ~get_ca(ca_instance, ca_files)
            THEN /\ calls' = [calls EXCEPT ![p] =
                        [c0 EXCEPT !.pc = "done", !.response = Response(500, "", 0, "Internal Server Error")]]
                 /\ UNCHANGED certificates
            ELSE IF fault \/ serial_taken(certificates, serial)
            THEN /\ calls' = [calls EXCEPT ![p] =
                        [c0 EXCEPT !.pc = "done",
                                   !.response = Response(500, "", 0,
                                                    "Failed to generate client cert")]]
                 /\ UNCHANGED certificates
            ELSE /\ LET signed == generate_client_cert_validity(datetime_utcnow, days)
                    IN  certificates' = create_certificate(certificates, 0,
                                            client_device_id(ClientName), serial, days,
                                            signed.cert_pem, signed.not_before,
                                            signed.not_after, "admin",
                                            client_private_key_pem(TRUE))
                 /\ calls' = [calls EXCEPT ![p] =
                        [c0 EXCEPT !.pc = "c_audit", !.serial_number = serial,
                                   !.cert_id = Len(certificates) + 1]]
    /\ ca_instance' = get_ca(ca_instance, ca_files)
    /\ UNCHANGED <<csr_requests, device_whitelist, audit_logs, settings, now, active_tokens,
                   ca_files>>

\* Lines 795-815: audit the issuance and return the certificate with its key.
GenerateAudit(p) ==
    /\ calls[p].pc = "c_audit"
    /\ Settled
    /\ \E fault \in BOOLEAN :
        IF fault
        THEN /\ Return(p, Response(500, "", 0, "Failed to generate client cert"))
             /\ UNCHANGED audit_logs
        ELSE /\ audit_logs' = add_audit_log(audit_logs, "CLIENT_CERT_ISSUED", "certificate",
                                            calls[p].serial_number, "", "admin",
                                            datetime_utcnow)
             /\ Return(p, generate_response(calls[p].serial_number))
    /\ UNCHANGED <<csr_requests, certificates, device_whitelist, settings, now, active_tokens,
                   ca_instance, ca_files>>

(***************************************************************************)
(* main.py: list_client_certs  (GET /api/client-certs)                     *)
(***************************************************************************)
\* text.startswith(prefix), for a text as the sequence of its parts
startswith(text, prefix) == text # <<>> /\ text[1] = prefix

\* Line 738: cert["device_id"].startswith("client:")
is_client_cert(cert) == startswith(cert.device_id, "client:")

\* Lines 721-747: await get_all_certificates(), keep the rows whose device_id
\* starts with "client:".
ListClientCerts(p) ==
    /\ CanStartAdmin(p)
    /\  LET rows == get_all_certificates(certificates)
        IN  calls' = [calls EXCEPT ![p] =
                [@ EXCEPT !.op = "list_client_certs", !.pc = "done",
                          !.response =
                            [Response(200, "", 0, "") EXCEPT !.client_certs =
                                {i \in rows : is_client_cert(certificates[i])}]]]
    /\ UNCHANGED <<csr_requests, certificates, device_whitelist, audit_logs, settings, now, active_tokens,
                   ca_instance, ca_files>>

(***************************************************************************)
(* main.py: get_certificate, list_certificates, download_certificate       *)
(***************************************************************************)
\* Lines 484-487: the row is returned as it is (SELECT *), private_key_pem included.
GetCertificate(p, cid) ==
    /\ CanStartAdmin(p)
    /\  LET c0 == [calls[p] EXCEPT !.op = "get_certificate", !.cert_id = cid]
            row == get_certificate_by_id(certificates, cid)
        IN  calls' = [calls EXCEPT ![p] =
                [c0 EXCEPT !.pc = "done",
                           !.response =
                                IF row = 0
                                THEN Response(404, "", 0, "Certificate not found")
                                ELSE [Response(200, "", certificates[row].serial_number, "")
                                        EXCEPT !.private_key =
                                            certificates[row].private_key_pem]]]
    /\ UNCHANGED <<csr_requests, certificates, device_whitelist, audit_logs, settings, now, active_tokens,
                   ca_instance, ca_files>>

\* Lines 464-478 (and 730-747): every row is returned with all its columns.
ListCertificates(p) ==
    /\ CanStartAdmin(p)
    /\  LET rows == get_all_certificates(certificates)
        IN  calls' = [calls EXCEPT ![p] =
                [@ EXCEPT !.op = "list_certificates", !.pc = "done",
                          !.response =
                            [Response(200, "", 0, "") EXCEPT !.private_key =
                                \E i \in rows : certificates[i].private_key_pem]]]
    /\ UNCHANGED <<csr_requests, certificates, device_whitelist, audit_logs, settings, now, active_tokens,
                   ca_instance, ca_files>>

DownloadFormats == {"pem", "pkcs12"}

\* Lines 507-562: format "pkcs12" packs the stored private key into a new
\* archive under a new password and returns both; without a stored key it
\* is refused.  The other formats return the certificate only.
DownloadCertificate(p, cid, format) ==
    /\ CanStartAdmin(p)
    /\  LET c0 == [calls[p] EXCEPT !.op = "download", !.cert_id = cid]
            row == get_certificate_by_id(certificates, cid)
        IN  calls' = [calls EXCEPT ![p] =
                [c0 EXCEPT !.pc = "done",
                           !.response =
                                IF row = 0
                                THEN Response(404, "", 0, "Certificate not found")
                                ELSE IF ~get_ca(ca_instance, ca_files)
                                THEN Response(500, "", 0, "Internal Server Error")
                                ELSE IF format # "pkcs12"
                                THEN Response(200, "", certificates[row].serial_number, "")
                                ELSE IF ~certificates[row].private_key_pem
                                THEN Response(400, "", 0, "No private key stored")
                                ELSE [Response(200, "", certificates[row].serial_number, "")
                                        EXCEPT !.private_key = TRUE]]]
    /\ ca_instance' = IF get_certificate_by_id(certificates, cid) = 0 THEN ca_instance
                      ELSE get_ca(ca_instance, ca_files)
    /\ UNCHANGED <<csr_requests, certificates, device_whitelist, audit_logs, settings, now, active_tokens,
                   ca_files>>

(***************************************************************************)
(* main.py: remove_from_whitelist  (DELETE /api/whitelist/{device_id})     *)
(***************************************************************************)
\* Line 671: await delete_device_from_whitelist(device_id)
WhitelistRemoveDelete(p, device_id) ==
    /\ CanStartAdmin(p)
    /\ device_whitelist' = delete_device_from_whitelist(device_whitelist, device_id)
    /\ calls' = [calls EXCEPT ![p] =
            [@ EXCEPT !.op = "whitelist_remove", !.pc = "x_audit", !.cert_id = device_id]]
    /\ UNCHANGED <<csr_requests, certificates, audit_logs, settings, now, active_tokens,
                   ca_instance, ca_files>>

\* Lines 673-679: audit the removal and return.
WhitelistRemoveAudit(p) ==
    /\ calls[p].pc = "x_audit"
    /\ Settled
    /\ audit_logs' = add_audit_log(audit_logs, "WHITELIST_REMOVE", "device",
                                   calls[p].cert_id, "", "admin", datetime_utcnow)
    /\ Return(p, Response(200, "", 0, "Device removed"))
    /\ UNCHANGED <<csr_requests, certificates, device_whitelist, settings, now, active_tokens,
                   ca_instance, ca_files>>

(***************************************************************************)
(* main.py: login, logout  (POST /api/auth/login, /api/auth/logout)        *)
(***************************************************************************)
\* Line 33 of config.py.
admin_password == "tianshan-pki-admin"

\* Lines 64-69: create_token stores the new token with its expiry, 24 hours
\* from now on the local clock.
create_token_half_day(tokens, token, local_now) ==
    [tokens EXCEPT ![token] = local_now + 1]

create_token(tokens, token, local_now) ==
    [tokens EXCEPT ![token] = local_now + timedelta_days(1)]

\* Line 66: secrets.token_urlsafe(32) draws 32 random bytes, a token no
\* earlier login has drawn.
IssuedTokens ==
    {t \in SessionTokens :
        \E q \in Procs : /\ calls[q].op = "login"
                         /\ t \in {calls[q].device_token, calls[q].response.detail}}

\* Lines 77 and 148: authorization.replace("Bearer ", "") drops every word
\* "Bearer" that another word follows (headers of one or two words).
bearer_token(authorization) ==
    LET kept == {i \in 1..Len(authorization) :
                    ~(authorization[i] = "Bearer" /\ i < Len(authorization))}
    IN  IF Cardinality(kept) = 1 THEN authorization[CHOOSE i \in kept : TRUE] ELSE ""

\* Lines 82 and 150: del active_tokens[token]
del_token_kept(tokens, token) == tokens

del_token(tokens, token) == [tokens EXCEPT ![token] = 0]

\* token in active_tokens
token_in(tokens, token) == token \in DOMAIN tokens /\ tokens[token] # 0

\* Lines 133-137: 401 on a wrong password; otherwise a token is drawn and
\* stored in active_tokens, and the expiry the response tells is computed,
\* before the handler first awaits.
LoginStart(p, password) ==
    /\ CanStart(p)
    /\ \E token \in SessionTokens \ IssuedTokens :
        LET c0 == [calls[p] EXCEPT !.op = "login"]
        IN  IF password # admin_password
            THEN /\ calls' = [calls EXCEPT ![p] =
                        [c0 EXCEPT !.pc = "done",
                                   !.response = Response(401, "", 0, "Invalid password")]]
                 /\ UNCHANGED active_tokens
            ELSE /\ active_tokens' = create_token(active_tokens, token, datetime_now)
                 /\ calls' = [calls EXCEPT ![p] =
                        [c0 EXCEPT !.pc = "l_audit", !.device_token = token,
                                   !.not_after = datetime_now + timedelta_days(1)]]
    /\ UNCHANGED <<csr_requests, certificates, device_whitelist, audit_logs, settings, now,
                   ca_instance, ca_files>>

\* Lines 139-141: audit the login and return the token with its expiry.
LoginAudit(p) ==
    /\ calls[p].pc = "l_audit"
    /\ Settled
    /\ audit_logs' = add_audit_log(audit_logs, "LOGIN", "admin", 0, "", "admin",
                                   datetime_utcnow)
    /\ Return(p, [Response(200, "", 0, calls[p].device_token)
                    EXCEPT !.expires_at = calls[p].not_after])
    /\ UNCHANGED <<csr_requests, certificates, device_whitelist, settings, now, active_tokens,
                   ca_instance, ca_files>>

\* Lines 147-151: the token of the Authorization header, if it is a session,
\* is removed; the handler awaits nothing and writes no audit entry.
Logout(p, authorization) ==
    /\ CanStart(p)
    /\ active_tokens' =
            IF authorization # <<>> /\ token_in(active_tokens, bearer_token(authorization))
            THEN del_token(active_tokens, bearer_token(authorization))
            ELSE active_tokens
    /\ calls' = [calls EXCEPT ![p] =
            [@ EXCEPT !.op = "logout", !.pc = "done", !.authorization = authorization,
                      !.device_token = bearer_token(authorization),
                      !.response = Response(200, "", 0, "Logged out")]]
    /\ UNCHANGED <<csr_requests, certificates, device_whitelist, audit_logs, settings, now,
                   ca_instance, ca_files>>

(***************************************************************************)
(* main.py: verify_token, the dependency of the administrators' endpoints. *)
(* It is a plain function: the framework runs it in a worker thread, next  *)
(* to the event loop and to the other worker threads, so that its three    *)
(* accesses to active_tokens are three steps.                              *)
(***************************************************************************)
\* Line 81: datetime.now() > active_tokens[token]
token_expired(local_now, expires) == local_now > expires

\* Lines 74-79: 401 without a header and for a token that is no session.
VerifyLookup(p, authorization) ==
    /\ CanStart(p)
    /\ LET c0 == [calls[p] EXCEPT !.op = "verify", !.authorization = authorization]
       IN  calls' = [calls EXCEPT ![p] =
                IF authorization = <<>>
                THEN [c0 EXCEPT !.pc = "done",
                                !.response = Response(401, "", 0, "Missing authorization")]
                ELSE IF ~token_in(active_tokens, bearer_token(authorization))
                THEN [c0 EXCEPT !.pc = "done",
                                !.response = Response(401, "", 0, "Invalid token")]
                ELSE [c0 EXCEPT !.pc = "t_expiry"]]
    /\ UNCHANGED <<csr_requests, certificates, device_whitelist, audit_logs, settings, now,
                   active_tokens, ca_instance, ca_files>>

\* Line 81 and line 85: the expiry is read and compared with the local clock;
\* reading a token that has gone since line 78 raises KeyError, which the
\* server answers with 500.
VerifyExpiry(p) ==
    /\ calls[p].pc = "t_expiry"
    /\ LET token == bearer_token(calls[p].authorization)
       IN  IF ~token_in(active_tokens, token)
           THEN Return(p, Response(500, "", 0, "Internal Server Error"))
           ELSE IF token_expired(datetime_now, active_tokens[token])
           THEN calls' = [calls EXCEPT ![p].pc = "t_evict"]
           ELSE calls' = [calls EXCEPT ![p].pc = "t_passed", ![p].verified = TRUE]
    /\ UNCHANGED <<csr_requests, certificates, device_whitelist, audit_logs, settings, now,
                   active_tokens, ca_instance, ca_files>>

\* Lines 82-83: the expired token is deleted and the call refused; deleting a
\* token that has gone since line 81 raises KeyError.
VerifyEvict(p) ==
    /\ calls[p].pc = "t_evict"
    /\ LET token == bearer_token(calls[p].authorization)
       IN  IF ~token_in(active_tokens, token)
           THEN /\ Return(p, Response(500, "", 0, "Internal Server Error"))
                /\ UNCHANGED active_tokens
           ELSE /\ active_tokens' = del_token(active_tokens, token)
                /\ Return(p, Response(401, "", 0, "Token expired"))
    /\ UNCHANGED <<csr_requests, certificates, device_whitelist, audit_logs, settings, now,
                   ca_instance, ca_files>>

\* Lines 149-150 against lines 82-83: logout finds the token, the thread of
\* call q deletes it as expired, and the del of logout raises KeyError.
LogoutRaced(p, authorization, q) ==
    /\ CanStart(p)
    /\ calls[q].pc = "t_evict"
    /\ bearer_token(calls[q].authorization) = bearer_token(authorization)
    /\ token_in(active_tokens, bearer_token(authorization))
    /\ active_tokens' = del_token(active_tokens, bearer_token(authorization))
    /\ calls' = [calls EXCEPT
            ![q] = [@ EXCEPT !.pc = "done",
                             !.response = Response(401, "", 0, "Token expired")],
            ![p] = [@ EXCEPT !.op = "logout", !.pc = "done",
                             !.authorization = authorization,
                             !.device_token = bearer_token(authorization),
                             !.response = Response(500, "", 0, "Internal Server Error")]]
    /\ UNCHANGED <<csr_requests, certificates, device_whitelist, audit_logs, settings, now,
                   ca_instance, ca_files>>

\* Line 59: active_tokens lives in the memory of the process, and so does
\* _ca_instance.  A restart ends the calls in progress without a response and
\* starts with no session, startup (lines 90-99) loads the CA; the database
\* stays.
Restart(p) ==
    /\ calls[p].pc = "idle"
    /\ \A q \in Procs : q < p => calls[q].pc # "idle"
    /\ calls' = [q \in Procs |->
            IF q = p THEN [IdleCall EXCEPT !.op = "restart", !.pc = "done"]
            ELSE IF calls[q].pc \in {"idle", "done"} THEN calls[q]
            ELSE [calls[q] EXCEPT !.pc = "done", !.response = NoResponse, !.csr = "",
                                  !.device_token = "", !.validity_days = 0,
                                  !.auto_approve = FALSE, !.serial_number = 0,
                                  !.reason = "", !.not_after = 0, !.not_before = 0,
                  !.cert_pem = NoValidity, !.device_id = <<>>]]
    /\ active_tokens' = [token \in SessionTokens |-> 0]
    /\ ca_instance' = startup(ca_files)
    /\ UNCHANGED <<csr_requests, certificates, device_whitelist, audit_logs, settings, now,
                   ca_files>>

(***************************************************************************)
(* main.py: get_logs  (GET /api/audit-logs)                                *)
(***************************************************************************)
\* Lines 701-704: await get_audit_logs(limit)
GetLogs(p, limit) ==
    /\ CanStartAdmin(p)
    /\ \E logs \in get_audit_logs(audit_logs, limit) :
        calls' = [calls EXCEPT ![p] =
            [@ EXCEPT !.op = "get_logs", !.pc = "done", !.validity_days = limit,
                      !.response = [Response(200, "", 0, "") EXCEPT !.logs = logs]]]
    /\ UNCHANGED <<csr_requests, certificates, device_whitelist, audit_logs, settings, now, active_tokens,
                   ca_instance, ca_files>>

(***************************************************************************)
(* main.py: get_ca_chain  (GET /api/ca/chain, public)                      *)
(***************************************************************************)
\* Lines 692-696: get_ca() and the chain of the instance; the exception of a
\* CA that does not load is answered with 500.
GetCaChain(p) ==
    /\ CanStart(p)
    /\ ca_instance' = get_ca(ca_instance, ca_files)
    /\ calls' = [calls EXCEPT ![p] =
            [@ EXCEPT !.op = "ca_chain", !.pc = "done",
                      !.response = IF get_ca(ca_instance, ca_files)
                                   THEN Response(200, "", 0, "ca_chain")
                                   ELSE Response(500, "", 0, "Internal Server Error")]]
    /\ UNCHANGED <<csr_requests, certificates, device_whitelist, audit_logs, settings, now,
                   active_tokens, ca_files>>

\* config.py lines 13-18: the files of the CA are the operator's; they are
\* put in place, replaced or removed while the server runs.
CaFilesChange ==
    /\ Settled
    /\ ca_files' = ~ca_files
    /\ UNCHANGED <<csr_requests, certificates, device_whitelist, audit_logs, calls, settings,
                   now, active_tokens, ca_instance>>

(***************************************************************************)
(* ca.py: parse_csr, sign_csr                                              *)
(***************************************************************************)
\* Lines 57-67 of ca.py: the values of the SAN entries of one kind, in order.
parse_csr_san(csr_san, kind) ==
    LET of_kind(name) == name.kind = kind
        names == SelectSeq(csr_san, of_kind)
    IN  [k \in 1..Len(names) |-> names[k].value]

\* ipaddress.ip_address(ip) raises ValueError on a string that is no address.
ip_address_ok(ip) == ip # "not-an-ip"

\* A subject that keeps every attribute of the CSR, its OUs too.
sign_csr_subject_appended(csr_subject, device_type) ==
    csr_subject \o <<[oid |-> "OU", value |-> device_type]>>

\* Lines 110-121 of ca.py: the attributes of the CSR's subject that are no OU,
\* in their order, and then the device type as OU.
sign_csr_subject(csr_subject, device_type) ==
    LET no_ou(attr) == attr.oid # "OU"
    IN  SelectSeq(csr_subject, no_ou) \o <<[oid |-> "OU", value |-> device_type]>>

\* Lines 123-144 of ca.py: the SAN entries of the CSR, then the additional IPs
\* that parse as addresses, then the additional DNS names; nothing is compared.
sign_csr_san(csr_san, additional_ips, additional_dns) ==
    LET ips == SelectSeq(additional_ips, ip_address_ok)
    IN  csr_san
        \o [k \in 1..Len(ips) |-> [kind |-> "ip", value |-> ips[k]]]
        \o [k \in 1..Len(additional_dns) |-> [kind |-> "dns", value |-> additional_dns[k]]]

\* A key usage that does not look at the certificate type.
sign_csr_key_usage_server(cert_type) == {"digital_signature", "key_encipherment"}

\* Lines 146-192 of ca.py: the bits of KeyUsage that are True.
sign_csr_key_usage(cert_type) ==
    IF cert_type = "server" THEN {"digital_signature", "key_encipherment"}
    ELSE IF cert_type = "client" THEN {"digital_signature"}
    ELSE {"digital_signature", "key_encipherment"}

\* Lines 158-192 of ca.py: the purposes of ExtendedKeyUsage.
sign_csr_extended_key_usage(cert_type) ==
    IF cert_type = "server" THEN {"serverAuth", "clientAuth"}
    ELSE IF cert_type = "client" THEN {"clientAuth"}
    ELSE {"serverAuth", "clientAuth"}

\* Lines 194-222 of ca.py: the certificate that is built and signed.
sign_csr(csr_subject, csr_san, cert_type, device_type, additional_ips, additional_dns) ==
    [subject |-> sign_csr_subject(csr_subject, device_type),
     san |-> sign_csr_san(csr_san, additional_ips, additional_dns),
     key_usage |-> sign_csr_key_usage(cert_type),
     extended_key_usage |-> sign_csr_extended_key_usage(cert_type),
     ca |-> FALSE]

\* x or default, for a string
or_default(x, default) == IF x = "" THEN default ELSE x

\* list(set(names)): the names once each, in an order Python does not fix.
list_of_set(names) ==
    LET members == {names[k] : k \in 1..Len(names)}
    IN  {f \in [1..Cardinality(members) -> members] :
            \A i, j \in 1..Cardinality(members) : i # j => f[i] # f[j]}

\* One signing per behaviour: the signings of this section are independent.
NoSigning == \A q \in Procs : calls[q].op \notin {"submit_sign", "approve_sign"}

\* Lines 213-224 of main.py: the signing of an automatic approval.  The SAN
\* entries parsed from the CSR are merged with the suggested ones and passed
\* as additional names; cert_type defaults to "server", device_type is not
\* passed.
SubmitSign(p, csr_subject, csr_san, cert_type, suggested_san_ips, suggested_san_dns) ==
    /\ CanStart(p)
    /\ NoSigning
    /\ \E additional_ips \in list_of_set(parse_csr_san(csr_san, "ip") \o suggested_san_ips),
          additional_dns \in list_of_set(parse_csr_san(csr_san, "dns") \o suggested_san_dns) :
        calls' = [calls EXCEPT ![p] =
            [@ EXCEPT !.op = "submit_sign", !.pc = "done",
                      !.sign_args = [subject |-> csr_subject, san |-> csr_san,
                                     cert_type |-> cert_type, device_type |-> "",
                                     ips |-> suggested_san_ips, dns |-> suggested_san_dns,
                                     req_cert_type |-> ""],
                      !.response = [Response(200, APPROVED, 0, "") EXCEPT !.x509 =
                            sign_csr(csr_subject, csr_san, or_default(cert_type, "server"),
                                     "Device", additional_ips, additional_dns)]]]
    /\ UNCHANGED <<csr_requests, certificates, device_whitelist, audit_logs, settings, now, active_tokens,
                   ca_instance, ca_files>>

\* Line 201 of main.py: the cert_type submit_csr stores with the request.
stored_cert_type(cert_type) == or_default(cert_type, "server")

\* cert_type of the requests an approval reads: submitted without a type, or
\* as "client".
StoredCertTypes == {stored_cert_type(cert_type) : cert_type \in {"", "client"}}

\* Line 379 of main.py: cert_type = req.cert_type or csr_req["cert_type"]
approve_cert_type(cert_type, req_cert_type) == or_default(cert_type, req_cert_type)

\* ",".join(names): the text as the sequence of its parts, the names and the
\* commas between them.  An address never holds a comma.
join_comma(names) ==
    [k \in 1..(IF names = <<>> THEN 0 ELSE 2 * Len(names) - 1) |->
        IF k % 2 = 1 THEN names[(k + 1) \div 2] ELSE ","]

\* text.split(","): the parts of the text between its commas ("" for a part
\* with nothing in it).
RECURSIVE split_comma(_)
split_comma(text) ==
    LET commas == {k \in 1..Len(text) : text[k] = ","}
        first == CHOOSE k \in commas : \A j \in commas : k <= j
        part(t) == IF t = <<>> THEN "" ELSE t[1]
    IN  IF commas = {} THEN <<part(text)>>
        ELSE <<part(SubSeq(text, 1, first - 1))>>
                \o split_comma(SubSeq(text, first + 1, Len(text)))

\* Lines 199-200 of main.py: the san_ips column of the request, the SAN IPs
\* parsed from the CSR joined by commas, None (<<>>) without any.
san_ips_column(san_ips) == IF san_ips # <<>> THEN join_comma(san_ips) ELSE <<>>

\* An approval that adds the IPs of the call to the stored ones.
approve_additional_ips_merged(req_ips, san_ips, device_ip) ==
    (IF san_ips # <<>> THEN split_comma(san_ips) ELSE <<>>) \o req_ips

\* Lines 381-388 of main.py: the additional IPs of the call; without any the
\* san_ips stored with the request, split at the commas; without those the
\* device_ip stored with the request.
approve_additional_ips(req_ips, san_ips, device_ip) ==
    IF req_ips # <<>> THEN req_ips
    ELSE IF san_ips # <<>> THEN split_comma(san_ips)
    ELSE IF device_ip # "" THEN <<device_ip>>
    ELSE <<>>

\* Lines 378-402 of main.py: the signing of an administrator's approval.  Without
\* additional IPs in the call the SAN IPs stored with the request are passed,
\* and without those the address of the device; cert_type defaults to the one
\* stored with the request (req_cert_type), device_type to "Device".
ApproveSign(p, csr_subject, csr_san, cert_type, req_cert_type, device_type, req_ips, req_dns) ==
    /\ CanStartAdmin(p)
    /\ NoSigning
    /\  LET san_ips == san_ips_column(parse_csr_san(csr_san, "ip"))
            additional_ips == approve_additional_ips(req_ips, san_ips, DeviceIp)
        IN  calls' = [calls EXCEPT ![p] =
                [@ EXCEPT !.op = "approve_sign", !.pc = "done",
                          !.sign_args = [subject |-> csr_subject, san |-> csr_san,
                                         cert_type |-> cert_type,
                                         device_type |-> device_type,
                                         ips |-> req_ips, dns |-> req_dns,
                                         req_cert_type |-> req_cert_type],
                          !.response = [Response(200, APPROVED, 0, "") EXCEPT !.x509 =
                                sign_csr(csr_subject, csr_san,
                                         approve_cert_type(cert_type, req_cert_type),
                                         or_default(device_type, "Device"),
                                         additional_ips, req_dns)]]]
    /\ UNCHANGED <<csr_requests, certificates, device_whitelist, audit_logs, settings, now, active_tokens,
                   ca_instance, ca_files>>

(***************************************************************************)
(* The system.                                                             *)
(***************************************************************************)
\* Request ids a caller may name: the rows there are, and one id with no row.
RequestIds == 1..(Len(csr_requests) + 1)

SubmitSteps(p) ==
    \/ SubmitStart(p)
    \/ SubmitLastUsed(p)
    \/ SubmitCreate(p)
    \/ SubmitAudit(p)
    \/ SubmitApprove(p)
    \/ SubmitStore(p)
    \/ SubmitIssued(p)
    \/ SubmitExcept(p)

ApproveSteps(p) ==
    \/ ApproveStatus(p)
    \/ ApproveStore(p)
    \/ ApproveIssued(p)

WhitelistAddSteps(p) ==
    \/ WhitelistAddRead(p)
    \/ WhitelistAddInsert(p)
    \/ WhitelistAddAudit(p)

RejectSteps(p) ==
    \/ RejectStatus(p)
    \/ RejectAudit(p)

\* Request lifecycle: administrators register a device token, devices submit
\* with or without it, administrators approve and reject.
Next ==
    \/ \E p \in Procs, auto \in BOOLEAN, days \in WhitelistDays :
            WhitelistAddCall(p, LifecycleToken, auto, days)
    \/ \E p \in Procs : WhitelistAddSteps(p)
    \/ \E p \in Procs, csr \in CSRs, token \in {"", LifecycleToken} :
            SubmitCall(p, TianshanDevice, csr, token, 0)
    \/ \E p \in Procs : SubmitSteps(p)
    \/ \E p \in Procs, rid \in RequestIds, days \in ApproveDays : ApproveRead(p, rid, days)
    \/ \E p \in Procs : ApproveSteps(p)
    \/ \E p \in Procs, rid \in RequestIds, reason \in Reasons : RejectRead(p, rid, reason)
    \/ \E p \in Procs : RejectSteps(p)

Spec == Init /\ [][Next]_vars

\* Whitelist policy: administrators add whitelist entries, devices submit with
\* and without tokens and poll the status.  The calls of one behaviour fall
\* within one tick of the clock.
NextPolicy ==
    \/ \E p \in Procs, token \in Tokens, auto \in BOOLEAN, days \in WhitelistDays :
            WhitelistAddCall(p, token, auto, days)
    \/ \E p \in Procs : WhitelistAddSteps(p)
    \/ \E p \in Procs, csr \in CSRs, token \in SubmitTokens, days \in SubmitDays :
            SubmitCall(p, TianshanDevice, csr, token, days)
    \/ \E p \in Procs : SubmitSteps(p)
    \/ \E p \in Procs, rid \in RequestIds : StatusRead(p, rid)
    \/ \E p \in Procs : StatusCert(p)

SpecPolicy == InitPolicy /\ [][NextPolicy]_vars

InitCerts == InitWith(ZoneSettings, {1})

\* Certificate ids a caller may name: the rows there were, and one id with no row.
CertIds == 1..(Len(certificates) + 1)

RevokeSteps(p) ==
    \/ RevokeWrite(p)
    \/ RevokeAudit(p)

DeleteSteps(p) ==
    \/ DeleteWrite(p)
    \/ DeleteAudit(p)

\* Certificate management: administrators generate client certificates, read,
\* revoke and delete certificates, the clock advances.
NextCerts ==
    \/ Tick
    \/ \E p \in Procs, days \in ClientDays : GenerateStore(p, days)
    \/ \E p \in Procs : GenerateAudit(p)
    \/ \E p \in Procs, cid \in CertIds, reason \in Reasons : RevokeRead(p, cid, reason)
    \/ \E p \in Procs : RevokeSteps(p)
    \/ \E p \in Procs, cid \in CertIds : DeleteRead(p, cid)
    \/ \E p \in Procs : DeleteSteps(p)
    \/ \E p \in Procs, cid \in CertIds : GetCertificate(p, cid)
    \/ \E p \in Procs : ListCertificates(p)
    \/ \E p \in Procs, cid \in CertIds, format \in DownloadFormats :
            DownloadCertificate(p, cid, format)

SpecCerts == InitCerts /\ [][NextCerts]_vars

\* Tokens a caller can present: those a Login has returned.
ReturnedTokens ==
    {calls[q].response.detail :
        q \in {q \in Procs : /\ calls[q].op = "login"
                             /\ calls[q].pc = "done"
                             /\ calls[q].response.code = 200}}

\* The header that carries a token as clients send it.
Bearer(tokens) == {<<"Bearer", token>> : token \in tokens}

\* Whitelist ids a caller may name: the rows there were, and one id with no row.
WhitelistIds == 1..(Len(device_whitelist) + 1)

WhitelistRemoveSteps(p) ==
    \/ WhitelistRemoveAudit(p)

\* Administration: administrators log in and out, add and remove whitelist
\* entries and read the audit log, the clock advances.
NextAdmin ==
    \/ Tick
    \/ \E p \in Procs, password \in Passwords : LoginStart(p, password)
    \/ \E p \in Procs : LoginAudit(p)
    \/ \E p \in Procs, authorization \in Bearer(ReturnedTokens) \cup {<<>>} :
            Logout(p, authorization)
    \/ \E p \in Procs, token \in Tokens, auto \in BOOLEAN, days \in WhitelistDays :
            WhitelistAddCall(p, token, auto, days)
    \/ \E p \in Procs : WhitelistAddSteps(p)
    \/ \E p \in Procs, device_id \in WhitelistIds : WhitelistRemoveDelete(p, device_id)
    \/ \E p \in Procs : WhitelistRemoveSteps(p)
    \/ \E p \in Procs, limit \in Limits : GetLogs(p, limit)

SpecAdmin == InitCerts /\ [][NextAdmin]_vars

\* Headers a caller can send: none, or a token a Login has returned or a
\* string that is no token of the server, with or without the word Bearer.
UnknownToken == "guess"

Authorizations ==
    LET tokens == ReturnedTokens \cup {UnknownToken}
    IN  {<<>>} \cup Bearer(tokens) \cup {<<token>> : token \in tokens}

\* Sessions: administrators log in and out and call endpoints that depend
\* on verify_token (here the audit log), the clock advances, the process is
\* restarted.
NextSession ==
    \/ Tick
    \/ \E p \in Procs : Restart(p)
    \/ \E p \in Procs, password \in Passwords : LoginStart(p, password)
    \/ \E p \in Procs : LoginAudit(p)
    \/ \E p \in Procs, authorization \in Authorizations : Logout(p, authorization)
    \/ \E p \in Procs, authorization \in Authorizations, q \in Procs :
            LogoutRaced(p, authorization, q)
    \/ \E p \in Procs, authorization \in Authorizations : VerifyLookup(p, authorization)
    \/ \E p \in Procs : VerifyExpiry(p)
    \/ \E p \in Procs : VerifyEvict(p)
    \/ \E p \in {q \in Procs : Depends_verify_token(q)}, limit \in Limits : GetLogs(p, limit)

SpecSession == InitCerts /\ [][NextSession]_vars

\* The server starts on the database of an earlier run: a whitelist entry, a
\* pending request and a client certificate, each with its audit entry.
InitAuth ==
    /\ csr_requests = create_csr_request(<<>>, TianshanDevice, "", "valid", default_validity_days, 1)
    /\ certificates =
            LET signed == generate_client_cert_validity(1, default_validity_days)
            IN  create_certificate(<<>>, 0, client_device_id(ClientName), 1,
                                   default_validity_days, signed.cert_pem,
                                   signed.not_before, signed.not_after, "admin", TRUE)
    /\ device_whitelist = add_device_to_whitelist(<<>>, LifecycleToken, FALSE, 30)
    /\ audit_logs =
            add_audit_log(
                add_audit_log(
                    add_audit_log(<<>>, "WHITELIST_ADD", "device", 0, LifecycleToken,
                                  "admin", 1),
                    "CSR_SUBMIT", "csr_request", 1, "", "device", 1),
                "CLIENT_CERT_ISSUED", "certificate", 1, "", "admin", 1)
    /\ calls = [p \in Procs |-> IdleCall]
    /\ settings = DefaultSettings
    /\ now = 1
    /\ active_tokens = [token \in SessionTokens |-> 0]
    /\ ca_files = TRUE
    /\ ca_instance = startup(ca_files)

\* The calls whose verification has passed and whose handler has not started.
Verified == {q \in Procs : Depends_verify_token(q)}

\* Administration behind sessions: administrators log in, and every call of
\* an endpoint that depends on verify_token is verified before its handler
\* starts; the clock advances.
NextAuth ==
    \/ Tick
    \/ \E p \in Procs : LoginStart(p, admin_password)
    \/ \E p \in Procs : LoginAudit(p)
    \/ \E p \in Procs, authorization \in Bearer(ReturnedTokens \cup {UnknownToken}) \cup {<<>>} :
            VerifyLookup(p, authorization)
    \/ \E p \in Procs : VerifyExpiry(p)
    \/ \E p \in Procs : VerifyEvict(p)
    \/ \E p \in Verified : ListPending(p)
    \/ \E p \in Verified : ApproveRead(p, 1, 0)
    \/ \E p \in Procs : ApproveSteps(p)
    \/ \E p \in Verified, reason \in Reasons : RejectRead(p, 1, reason)
    \/ \E p \in Procs : RejectSteps(p)
    \/ \E p \in Verified, reason \in Reasons : RevokeRead(p, 1, reason)
    \/ \E p \in Procs : RevokeSteps(p)
    \/ \E p \in Verified : DeleteRead(p, 1)
    \/ \E p \in Procs : DeleteSteps(p)
    \/ \E p \in Verified, days \in ClientDays : GenerateStore(p, days)
    \/ \E p \in Procs : GenerateAudit(p)
    \/ \E p \in Verified, token \in Tokens, days \in WhitelistDays :
            WhitelistAddCall(p, token, FALSE, days)
    \/ \E p \in Procs : WhitelistAddSteps(p)
    \/ \E p \in Verified : WhitelistRemoveDelete(p, 1)
    \/ \E p \in Procs : WhitelistRemoveSteps(p)
    \/ \E p \in Verified : GetLogs(p, 1)

SpecAuth == InitAuth /\ [][NextAuth]_vars

\* The requests a database holds when the server starts: up to MaxStored
\* rows, created one after the other by create_csr_request, each left pending
\* or processed by update_request_status.
RECURSIVE stored_requests(_)
stored_requests(n) ==
    IF n = 0 THEN {<<>>}
    ELSE UNION {
            {IF status = PENDING
             THEN create_csr_request(reqs, TianshanDevice, "", "valid", default_validity_days, t)
             ELSE update_request_status(
                    create_csr_request(reqs, TianshanDevice, "", "valid", default_validity_days, t),
                    n, status, t, "admin", IF status = REJECTED THEN "policy" ELSE "") :
                t \in {u \in 1..MaxTime : n = 1 \/ u >= reqs[n - 1].created_at},
                status \in {PENDING, APPROVED, REJECTED}} :
            reqs \in stored_requests(n - 1)}

\* The server starts on a database that holds requests of earlier runs.
InitPending ==
    /\ csr_requests \in UNION {stored_requests(n) : n \in 0..MaxStored}
    /\ certificates = <<>>
    /\ device_whitelist = <<>>
    /\ audit_logs = <<>>
    /\ calls = [p \in Procs |-> IdleCall]
    /\ settings \in ZoneSettings
    /\ now = MaxTime
    /\ active_tokens = [token \in SessionTokens |-> 0]
    /\ ca_files = TRUE
    /\ ca_instance = startup(ca_files)

\* Review: administrators list the pending requests and reject some.
NextPending ==
    \/ \E p \in Procs : ListPending(p)
    \/ \E p \in Procs, rid \in RequestIds, reason \in Reasons : RejectRead(p, rid, reason)
    \/ \E p \in Procs : RejectSteps(p)

SpecPending == InitPending /\ [][NextPending]_vars

\* The server starts on a database that holds one request of an earlier
\* run, with the files of the CA in place or not.
InitStartup ==
    /\ csr_requests \in stored_requests(1)
    /\ certificates = <<>>
    /\ device_whitelist = <<>>
    /\ audit_logs = <<>>
    /\ calls = [p \in Procs |-> IdleCall]
    /\ settings = DefaultSettings
    /\ now = MaxTime
    /\ active_tokens = [token \in SessionTokens |-> 0]
    /\ ca_files \in BOOLEAN
    /\ ca_instance = startup(ca_files)

\* Startup: devices ask for the chain and for the status of a request,
\* administrators log in and reject, the process is restarted, the operator
\* changes the files of the CA.
NextStartup ==
    \/ CaFilesChange
    \/ \E p \in Procs : Restart(p)
    \/ \E p \in Procs : GetCaChain(p)
    \/ \E p \in Procs, rid \in RequestIds : StatusRead(p, rid)
    \/ \E p \in Procs : StatusCert(p)
    \/ \E p \in Procs : LoginStart(p, admin_password)
    \/ \E p \in Procs : LoginAudit(p)
    \/ \E p \in Procs, rid \in RequestIds, reason \in Reasons : RejectRead(p, rid, reason)
    \/ \E p \in Procs : RejectSteps(p)

SpecStartup == InitStartup /\ [][NextStartup]_vars

\* Signing: the certificate sign_csr builds for the arguments of either caller.
NextSign ==
    \/ \E p \in {q \in Procs : CanStart(q) /\ NoSigning} :
          \E csr_subject \in Subjects, csr_san \in CsrSans,
             cert_type \in CertTypes, ips \in ExtraIps, dns \in ExtraDns :
                SubmitSign(p, csr_subject, csr_san, cert_type, ips, dns)
    \/ \E p \in {q \in Procs : CanStart(q) /\ NoSigning} :
          \E csr_subject \in Subjects, csr_san \in CsrSans,
             cert_type \in CertTypes, req_cert_type \in StoredCertTypes,
             device_type \in DeviceTypes, ips \in ExtraIps, dns \in ExtraDns :
                ApproveSign(p, csr_subject, csr_san, cert_type, req_cert_type,
                            device_type, ips, dns)

InitSign == InitWith({DefaultSettings}, {1})

SpecSign == InitSign /\ [][NextSign]_vars

\* Issuance: certificates are stored by automatic approval, by an
\* administrator's approval and by the generation of client certificates.
NextIssue ==
    \/ \E p \in Procs, auto \in BOOLEAN, days \in WhitelistDays :
            WhitelistAddCall(p, LifecycleToken, auto, days)
    \/ \E p \in Procs : WhitelistAddSteps(p)
    \/ \E p \in Procs, csr \in CSRs, token \in {"", LifecycleToken} :
            SubmitCall(p, TianshanDevice, csr, token, 0)
    \/ \E p \in Procs : SubmitSteps(p)
    \/ \E p \in Procs, rid \in RequestIds, days \in ApproveDays : ApproveRead(p, rid, days)
    \/ \E p \in Procs : ApproveSteps(p)
    \/ \E p \in Procs, days \in ClientDays : GenerateStore(p, days)
    \/ \E p \in Procs : GenerateAudit(p)

SpecIssue == Init /\ [][NextIssue]_vars

\* validity_days in the body of an approval: no member, null, 30 days.
ApproveFields == {<<>>, <<0>>, <<30>>}

\* The server starts on a database that holds one pending request of an
\* earlier submission: without validity_days (the default is stored) or for
\* 90 days.
InitApprove ==
    /\ csr_requests \in
            {create_csr_request(<<>>, TianshanDevice, "", "valid",
                                validity_decision(FALSE, FALSE, 0, days), 1) :
                days \in SubmitDays}
    /\ certificates = <<>>
    /\ device_whitelist = <<>>
    /\ audit_logs = <<>>
    /\ calls = [p \in Procs |-> IdleCall]
    /\ settings = DefaultSettings
    /\ now = 1
    /\ active_tokens = [token \in SessionTokens |-> 0]
    /\ ca_files = TRUE
    /\ ca_instance = startup(ca_files)

\* Approval: administrators approve the stored request, with and without
\* validity_days in the body.
NextApprove ==
    \/ \E p \in Procs, rid \in RequestIds, field \in ApproveFields :
            ApproveRead(p, rid, CSRApproveRequest_validity_days(field))
    \/ \E p \in Procs : ApproveSteps(p)

SpecApprove == InitApprove /\ [][NextApprove]_vars

\* The server starts on a database that holds one whitelist entry of an
\* earlier run, under any signing policy.
InitRemoval ==
    /\ csr_requests = <<>>
    /\ certificates = <<>>
    /\ device_whitelist \in
            {add_device_to_whitelist(<<>>, LifecycleToken, auto, days) :
                auto \in BOOLEAN, days \in WhitelistDays}
    /\ audit_logs = <<>>
    /\ calls = [p \in Procs |-> IdleCall]
    /\ settings \in PolicySettings
    /\ now = 1
    /\ active_tokens = [token \in SessionTokens |-> 0]
    /\ ca_files = TRUE
    /\ ca_instance = startup(ca_files)

\* Removal: administrators remove whitelist entries and add the token again,
\* devices submit with the token.
NextRemoval ==
    \/ \E p \in Procs, device_id \in WhitelistIds : WhitelistRemoveDelete(p, device_id)
    \/ \E p \in Procs : WhitelistRemoveSteps(p)
    \/ \E p \in Procs, auto \in BOOLEAN, days \in WhitelistDays :
            WhitelistAddCall(p, LifecycleToken, auto, days)
    \/ \E p \in Procs : WhitelistAddSteps(p)
    \/ \E p \in Procs, csr \in CSRs : SubmitCall(p, TianshanDevice, csr, LifecycleToken, 0)
    \/ \E p \in Procs : SubmitSteps(p)

SpecRemoval == InitRemoval /\ [][NextRemoval]_vars

\* The server starts on a database that holds one whitelist entry of an
\* earlier run, with the settings of config.py.
InitClients ==
    /\ csr_requests = <<>>
    /\ certificates = <<>>
    /\ device_whitelist \in
            {add_device_to_whitelist(<<>>, LifecycleToken, auto, days) :
                auto \in BOOLEAN, days \in WhitelistDays}
    /\ audit_logs = <<>>
    /\ calls = [p \in Procs |-> IdleCall]
    /\ settings = DefaultSettings
    /\ now = 1
    /\ active_tokens = [token \in SessionTokens |-> 0]
    /\ ca_files = TRUE
    /\ ca_instance = startup(ca_files)

\* Client certificates: devices submit under the device_id they choose,
\* administrators approve, generate client certificates and list them.
NextClients ==
    \/ \E p \in Procs, device_id \in DeviceIds, csr \in CSRs :
            SubmitCall(p, device_id, csr, LifecycleToken, 0)
    \/ \E p \in Procs : SubmitSteps(p)
    \/ \E p \in Procs, rid \in RequestIds : ApproveRead(p, rid, 0)
    \/ \E p \in Procs : ApproveSteps(p)
    \/ \E p \in Procs, days \in ClientDays : GenerateStore(p, days)
    \/ \E p \in Procs : GenerateAudit(p)
    \/ \E p \in Procs : ListClientCerts(p)

SpecClients == InitClients /\ [][NextClients]_vars

(***************************************************************************)
(* Properties of the request lifecycle (checked under Spec).               *)
(***************************************************************************)
Requests == 1..Len(csr_requests)

\* the certificates stored for request r
CertsOf(r) ==
    {i \in 1..Len(certificates) : ~certificates[i].deleted /\ certificates[i].request_id = r}

\* the issuance audit entries of the certificates stored for request r
IssuedAuditsOf(r) ==
    {k \in 1..Len(audit_logs) :
        /\ audit_logs[k].action = "CERT_ISSUED"
        /\ \E i \in CertsOf(r) : certificates[i].serial_number = audit_logs[k].target_id}

\* the call p has returned from approve_request for request r
ApproveDone(p, r) ==
    /\ calls[p].op = "approve"
    /\ calls[p].pc = "done"
    /\ calls[p].request_id = r

\* request r was submitted without automatic issuance (its Submit returned "pending")
SubmittedPending(r) ==
    \E s \in Procs : /\ calls[s].op = "submit"
                     /\ calls[s].request_id = r
                     /\ calls[s].response.status = PENDING

\* C1: two Approve calls on the same pending request, in any interleaving of
\* their steps, leave at most one stored certificate for that request and at
\* most one issuance audit entry (exactly one when both report success).
C1_ConcurrentApproveIssuesOnce ==
    \A r \in Requests : \A p, q \in Procs :
        (p # q /\ SubmittedPending(r) /\ ApproveDone(p, r) /\ ApproveDone(q, r))
        => /\ Cardinality(CertsOf(r)) <= 1
           /\ Cardinality(IssuedAuditsOf(r)) <= 1

\* C2: the status of a request changes only from pending to approved or from
\* pending to rejected; once a request is approved or rejected its status,
\* processedBy and rejectReason never change again.
C2_StatusChangesOnce ==
    [][\A r \in Requests :
        (\/ csr_requests'[r].status # csr_requests[r].status
         \/ csr_requests'[r].processed_by # csr_requests[r].processed_by
         \/ csr_requests'[r].reject_reason # csr_requests[r].reject_reason)
        => /\ csr_requests[r].status = PENDING
           /\ csr_requests'[r].status \in {APPROVED, REJECTED}]_vars

\* C3: Approve called on a request whose status is not pending fails with the
\* conflict error (HTTP 400 "Request already processed") and mutates nothing:
\* request table, certificate table and audit log are unchanged, and the call
\* has returned, so it takes no further step.
C3_ApproveProcessedConflict ==
    [][\A p \in Procs :
        (/\ calls[p].pc = "idle"
         /\ calls'[p].op = "approve"
         /\ calls'[p].request_id \in Requests
         /\ csr_requests[calls'[p].request_id].status # PENDING)
        => /\ calls'[p].pc = "done"
           /\ calls'[p].response.code = 400
           /\ calls'[p].response.certificate = 0
           /\ UNCHANGED <<csr_requests, certificates, audit_logs>>]_vars

\* C3 witness: an Approve was refused on a request that another Approve had
\* approved, and the request still has exactly one certificate.
C3_Witness ==
    \E p, q \in Procs :
        /\ calls[p].op = "approve" /\ calls[p].pc = "done"
        /\ calls[p].response.code = 400
        /\ calls[q].op = "approve" /\ calls[q].response.code = 200
        /\ calls[q].request_id = calls[p].request_id
        /\ csr_requests[calls[p].request_id].status = APPROVED
        /\ Cardinality(CertsOf(calls[p].request_id)) = 1

\* C4: when signing fails during an admin Approve of a pending request, the
\* caller receives the error (HTTP 500) and nothing is written: the request
\* row (still pending unless another call changed it), the certificate table
\* and the audit log are unchanged.  A CSR whose signature is invalid always
\* fails this way.
C4_ApproveSignFailureLeavesPending ==
    [][\A p \in Procs :
        (calls[p].pc = "a_approve" /\ calls'[p] # calls[p])
        => /\ ~csr_signature_valid(calls[p].csr) => calls'[p].pc = "done"
           /\ calls'[p].pc = "done"
                => /\ calls'[p].response.code = 500
                   /\ UNCHANGED <<csr_requests, certificates, audit_logs>>]_vars

\* C4 witness: an Approve failed in signing, the request stayed pending, and a
\* later Approve of the same request issued the certificate.
C4_Witness ==
    \E p, q \in Procs :
        /\ p < q
        /\ ApproveDone(p, calls[q].request_id)
        /\ calls[p].response.detail = "Signing failed: sign_error"
        /\ ApproveDone(q, calls[p].request_id)
        /\ calls[q].response.code = 200
        /\ csr_requests[calls[q].request_id].status = APPROVED
        /\ csr_requests[calls[q].request_id].processed_by = "admin"
        /\ Cardinality(CertsOf(calls[q].request_id)) = 1

\* C5: when issuance fails during the auto-approval of Submit (signing, status
\* update, certificate storage or audit append raises) the caller sees the
\* error and the request created by that Submit remains pending; it is not
\* rejected.
C5_AutoFailureLeavesPending ==
    \A p \in Procs :
        (/\ calls[p].op = "submit" /\ calls[p].pc = "done"
         /\ calls[p].response.code = 500)
        => csr_requests[calls[p].request_id].status = PENDING

\* C6: Reject is legal only from pending: whenever a Reject writes the request
\* row (status rejected, reason, processedBy) the row is pending, and a Reject
\* of an approved or rejected request fails with the conflict error and leaves
\* the request row and the audit log unchanged.
C6_RejectOnlyFromPending ==
    [][\A p \in Procs :
        /\ (calls[p].pc = "r_reject" /\ calls'[p].pc = "r_audit")
            => /\ csr_requests[calls[p].request_id].status = PENDING
               /\ csr_requests'[calls[p].request_id].status = REJECTED
               /\ csr_requests'[calls[p].request_id].reject_reason = calls[p].reason
        /\ (/\ calls[p].pc = "idle"
            /\ calls'[p].op = "reject"
            /\ calls'[p].request_id \in Requests
            /\ csr_requests[calls'[p].request_id].status # PENDING)
            => /\ calls'[p].response.code = 400
               /\ UNCHANGED <<csr_requests, audit_logs>>]_vars

(***************************************************************************)
(* Properties of the whitelist policy (checked under SpecPolicy).          *)
(***************************************************************************)
\* the whitelist has an entry for the token
TokenInWhitelist(token) ==
    \E i \in 1..Len(device_whitelist) :
        ~device_whitelist[i].deleted /\ device_whitelist[i].device_token = token

\* the whitelist entry of a token that has one
EntryOf(token) ==
    device_whitelist[CHOOSE i \in 1..Len(device_whitelist) :
                        ~device_whitelist[i].deleted /\ device_whitelist[i].device_token = token]

\* the call p runs the first segment of submit_csr in this step
SubmitStarts(p) == calls[p].pc = "s_start" /\ calls'[p] # calls[p]

\* C7 (as claimed): when device tokens are required, a Submit carrying no
\* token or a token not in the whitelist fails with the authorization error
\* (HTTP 403) and creates no record.
C7_UnknownTokenForbidden ==
    [][\A p \in Procs :
        (/\ SubmitStarts(p)
         /\ settings.require_device_token
         /\ ~TokenInWhitelist(calls[p].device_token))
        => /\ calls'[p].pc = "done"
           /\ calls'[p].response.code = 403
           /\ UNCHANGED <<csr_requests, certificates, audit_logs, device_whitelist>>]_vars

\* C7 (amended): when device tokens are required, a Submit carrying no token
\* or a token not in the whitelist fails and creates no record: request,
\* certificate and audit tables and every whitelist entry are as before, also
\* when global auto-sign is enabled.  The error is the authorization error
\* (HTTP 403) when the CSR parses; a CSR that does not parse is refused
\* first, with the validation error (HTTP 400).
C7_UnknownTokenNoRecord ==
    [][\A p \in Procs :
        (/\ SubmitStarts(p)
         /\ settings.require_device_token
         /\ ~TokenInWhitelist(calls[p].device_token))
        => /\ calls'[p].pc = "done"
           /\ calls'[p].request_id = 0
           /\ calls'[p].response.code
                = (IF parse_csr_ok(calls[p].csr) THEN 403 ELSE 400)
           /\ UNCHANGED <<csr_requests, certificates, audit_logs, device_whitelist>>]_vars

\* C7 witness: with auto-sign enabled and another token whitelisted, a Submit
\* with an unknown token was refused with 403 and no table has a record of it.
C7_Witness ==
    \E p \in Procs :
        /\ calls[p].op = "submit" /\ calls[p].pc = "done"
        /\ calls[p].response.code = 403
        /\ calls[p].response.detail = "Device token not in whitelist"
        /\ settings.auto_sign_enabled
        /\ Len(device_whitelist) > 0
        /\ csr_requests = <<>> /\ certificates = <<>>
        /\ \A k \in 1..Len(audit_logs) : audit_logs[k].action = "WHITELIST_ADD"

\* C8 (as claimed): the request of a Submit that the whitelist auto-approves
\* bypasses pending: no other operation observes it in status pending.
C8_NeverObservedPending ==
    \A p, q \in Procs :
        (/\ calls[p].op = "submit" /\ calls[p].auto_approve
         /\ ~settings.auto_sign_enabled
         /\ calls[p].request_id # 0
         /\ calls[q].op = "status" /\ calls[q].pc = "done"
         /\ calls[q].request_id = calls[p].request_id)
        => calls[q].response.status # PENDING

\* C8 (amended): a Submit of a CSR that parses, with a token whose whitelist
\* entry has autoApprove=true, first stores the request as pending (other
\* operations can observe it so), is never answered "pending", and, when
\* signing and storage succeed, returns status "approved" with the issued
\* certificate attached in the same call; otherwise it returns the error.
C8_AutoApprovedInSameCall ==
    [][\A p \in Procs :
        /\ (/\ SubmitStarts(p)
            /\ parse_csr_ok(calls[p].csr)
            /\ TokenInWhitelist(calls[p].device_token)
            /\ EntryOf(calls[p].device_token).auto_approve)
            => calls'[p].auto_approve /\ calls'[p].pc = "s_last_used"
        /\ (calls[p].pc = "s_create" /\ calls'[p].pc = "s_audit")
            => /\ Len(csr_requests') = Len(csr_requests) + 1
               /\ calls'[p].request_id = Len(csr_requests')
               /\ csr_requests'[calls'[p].request_id].status = PENDING
        /\ (/\ calls[p].op = "submit" /\ calls[p].auto_approve
            /\ calls[p].pc # "done" /\ calls'[p].pc = "done")
            => /\ calls'[p].response.status # PENDING
               /\ calls'[p].response.code \in {200, 500}
               /\ calls'[p].response.code = 200
                    => /\ calls'[p].response.status = APPROVED
                       /\ calls'[p].response.certificate = calls[p].serial_number
                       /\ \E i \in 1..Len(certificates) :
                            /\ certificates[i].request_id = calls[p].request_id
                            /\ certificates[i].serial_number = calls[p].serial_number]_vars

\* C8 witness: with auto-sign disabled, a Submit returned "approved" with the
\* certificate that is stored for its request, issued by "auto".
C8_Witness ==
    \E p \in Procs :
        /\ ~settings.auto_sign_enabled
        /\ calls[p].op = "submit" /\ calls[p].pc = "done"
        /\ calls[p].response.status = APPROVED
        /\ csr_requests[calls[p].request_id].status = APPROVED
        /\ \E i \in 1..Len(certificates) :
            /\ certificates[i].request_id = calls[p].request_id
            /\ certificates[i].serial_number = calls[p].response.certificate
            /\ certificates[i].issued_by = "auto"

\* C9: for every Submit that passes the token check the approval decision is
\* autoApprove = globalAutoSign OR (token known AND entry.autoApprove); when a
\* known token with autoApprove=true decides, the validity is that entry's
\* validityDays; the decision is carried out: an auto-approved request goes on
\* to issuance with that validity, any other is answered "pending".
C9_ApprovalPrecedence ==
    [][\A p \in Procs :
        /\ (SubmitStarts(p) /\ calls'[p].pc # "done")
            => LET token == calls[p].device_token
                   known == TokenInWhitelist(token)
               IN /\ calls'[p].auto_approve
                        = (settings.auto_sign_enabled
                           \/ (known /\ EntryOf(token).auto_approve))
                  /\ (known /\ EntryOf(token).auto_approve)
                        => calls'[p].validity_days = EntryOf(token).validity_days
        /\ (calls[p].pc = "s_create" /\ calls'[p].pc = "s_audit")
            => csr_requests'[calls'[p].request_id].validity_days = calls[p].validity_days
        /\ (calls[p].pc = "s_audit" /\ calls'[p] # calls[p])
            => IF calls[p].auto_approve
               THEN calls'[p].pc = "s_approve"
               ELSE /\ calls'[p].pc = "done"
                    /\ calls'[p].response.status = PENDING
                    /\ csr_requests[calls[p].request_id].status = PENDING
        /\ (calls[p].pc = "s_store" /\ calls'[p].pc = "s_issued")
            => /\ Len(certificates') = Len(certificates) + 1
               /\ certificates'[Len(certificates')].request_id = calls[p].request_id
               /\ certificates'[Len(certificates')].validity_days = calls[p].validity_days]_vars

\* C9 witness (Example B): auto-sign is disabled, a token entry with
\* autoApprove=true and validityDays=30 exists, and a certificate valid for 30
\* days was issued automatically for an approved request.
C9_Witness ==
    /\ ~settings.auto_sign_enabled
    /\ \E i \in 1..Len(certificates) :
        /\ certificates[i].issued_by = "auto"
        /\ certificates[i].validity_days = 30
        /\ csr_requests[certificates[i].request_id].status = APPROVED
        /\ TokenInWhitelist(csr_requests[certificates[i].request_id].device_token)
        /\ EntryOf(csr_requests[certificates[i].request_id].device_token).auto_approve

\* C10 (as claimed): every Submit carrying a token that matches a whitelist
\* entry goes on to update that entry's lastUsedAt.
C10_MatchingTokenAlwaysUpdates ==
    [][\A p \in Procs :
        (SubmitStarts(p) /\ TokenInWhitelist(calls[p].device_token))
        => calls'[p].pc = "s_last_used"]_vars

\* C10 (amended): every Submit whose CSR parses and whose token matches a
\* whitelist entry sets that entry's lastUsedAt to the current time, whatever
\* the autoApprove flag and the later outcome of the submission, and no step
\* of a Submit changes any other whitelist entry.
C10_LastUsedUpdated ==
    [][\A p \in Procs :
        /\ (/\ SubmitStarts(p)
            /\ parse_csr_ok(calls[p].csr)
            /\ TokenInWhitelist(calls[p].device_token))
            => calls'[p].pc = "s_last_used"
        /\ (calls[p].pc = "s_last_used" /\ calls'[p] # calls[p])
            => /\ calls'[p].pc = "s_create"
               /\ Len(device_whitelist') = Len(device_whitelist)
               /\ \A i \in 1..Len(device_whitelist) :
                    device_whitelist'[i] =
                        IF device_whitelist[i].device_token = calls[p].device_token
                        THEN [device_whitelist[i] EXCEPT !.last_used_at = datetime_now]
                        ELSE device_whitelist[i]
        /\ (/\ calls[p].op = "submit" /\ calls'[p] # calls[p]
            /\ calls[p].pc # "s_last_used")
            => device_whitelist' = device_whitelist]_vars

\* C10 witness: of two whitelist entries, the one whose token a Submit carried
\* has lastUsedAt set, the other is untouched.
C10_Witness ==
    \E i, j \in 1..Len(device_whitelist) :
        /\ i # j
        /\ device_whitelist[i].last_used_at = MaxTime
        /\ now = MaxTime
        /\ device_whitelist[j].last_used_at = 0
        /\ \E p \in Procs : calls[p].op = "submit" /\ calls[p].pc = "done"

\* C17: whenever GetStatus reports approved, the same response carries the
\* issued certificate (and with it the CA chain); whenever it reports rejected
\* it carries the reject reason of the request; also while an approval of the
\* request is in progress.
C17_StatusCarriesResult ==
    \A p \in Procs :
        (calls[p].op = "status" /\ calls[p].pc = "done" /\ calls[p].response.code = 200)
        => /\ calls[p].response.status = APPROVED => calls[p].response.certificate # 0
           /\ calls[p].response.status = REJECTED
                => calls[p].response.detail
                        = csr_requests[calls[p].request_id].reject_reason

(***************************************************************************)
(* Properties of certificate management (checked under SpecCerts).         *)
(***************************************************************************)
\* the certificate rows there are
Certs == get_all_certificates(certificates)

\* the audit entries with the given action
AuditsOf(action) == {k \in 1..Len(audit_logs) : audit_logs[k].action = action}

\* C11: revokedAt is set at most once per certificate: a Revoke of a
\* certificate that is already revoked fails with the conflict error and
\* changes nothing; however several Revoke calls interleave, a Revoke writes
\* only a certificate that is not revoked, and revokedAt and revokeReason,
\* once written, are never written again.
C11_RevokedAtSetOnce ==
    [][/\ \A i \in 1..Len(certificates) :
            certificates[i].revoked_at # 0
            => /\ certificates'[i].revoked_at = certificates[i].revoked_at
               /\ certificates'[i].revoke_reason = certificates[i].revoke_reason
       /\ \A p \in Procs :
            /\ (calls[p].pc = "v_revoke" /\ calls'[p].pc = "v_audit")
                => /\ calls[p].cert_id \in Certs
                   /\ certificates[calls[p].cert_id].revoked_at = 0
            /\ (/\ calls[p].pc = "idle"
                /\ calls'[p].op = "revoke"
                /\ calls'[p].cert_id \in Certs
                /\ certificates[calls'[p].cert_id].revoked_at # 0)
                => /\ calls'[p].response.code = 400
                   /\ UNCHANGED <<certificates, audit_logs>>]_vars

\* the certificate is expired (on the clock that stamped not_after) or revoked
ExpiredOrRevoked(i) ==
    \/ certificates[i].not_after < datetime_utcnow
    \/ certificates[i].revoked_at # 0

\* C12: Delete removes a certificate only if, at the time of the call, its
\* notAfter has passed on the clock that stamped it or revokedAt is set; on a
\* certificate that is neither expired nor revoked it fails with the conflict
\* error and leaves the certificate store and the audit log unchanged.
C12_DeleteOnlyExpiredOrRevoked ==
    [][\A p \in Procs :
        /\ (/\ calls[p].pc = "idle"
            /\ calls'[p].op = "delete"
            /\ calls'[p].cert_id \in Certs
            /\ ~ExpiredOrRevoked(calls'[p].cert_id))
            => /\ calls'[p].pc = "done"
               /\ calls'[p].response.code = 400
               /\ UNCHANGED <<certificates, audit_logs>>
        /\ (/\ calls[p].pc = "d_delete"
            /\ certificates' # certificates)
            => ExpiredOrRevoked(calls[p].cert_id)]_vars

\* no call is between two of its steps
Quiescent == \A p \in Procs : calls[p].pc \in {"idle", "done"}

\* C14: each certificate mutation appends exactly one audit entry: whenever no
\* call is in progress, there are as many issuance entries as certificates
\* ever stored, as many revoke entries as certificates whose revokedAt was
\* set, and as many delete entries as certificates removed.
C14_OneAuditPerCertMutation ==
    Quiescent
    => /\ Cardinality(AuditsOf("CERT_ISSUED") \cup AuditsOf("CLIENT_CERT_ISSUED"))
            = Len(certificates)
       /\ Cardinality(AuditsOf("CERT_REVOKED"))
            = Cardinality({i \in 1..Len(certificates) : certificates[i].revoked_at # 0})
       /\ Cardinality(AuditsOf("CERT_DELETED"))
            = Cardinality({i \in 1..Len(certificates) : certificates[i].deleted})

\* C19: the private key of a generated client certificate (and the password
\* of an archive of it) is returned once, by the GenerateClientCertificate
\* call that created it: no response of another operation carries a private
\* key or an archive of one.
C19_KeyReturnedOnce ==
    \A p \in Procs :
        (calls[p].pc = "done" /\ calls[p].response.private_key)
        => calls[p].op = "generate"

(***************************************************************************)
(* Properties of administration (checked under SpecAdmin).                 *)
(***************************************************************************)
\* the ids of the entries of the log from the last written to the first, cut
\* to the limit
NewestFirst(logs, limit) ==
    [k \in 1..(IF limit < Len(logs) THEN limit ELSE Len(logs)) |-> Len(logs) - k + 1]

\* C13: the audit log is append-only and read most-recent-first: every step
\* leaves every entry written so far in place with unchanged fields, and a
\* read of the log returns its entries from the last written to the first,
\* cut to the requested limit.
C13_AppendOnlyNewestFirst ==
    [][/\ Len(audit_logs') >= Len(audit_logs)
       /\ \A k \in 1..Len(audit_logs) : audit_logs'[k] = audit_logs[k]
       /\ \A p \in Procs :
            (calls[p].pc = "idle" /\ calls'[p].op = "get_logs")
            => calls'[p].response.logs
                    = NewestFirst(audit_logs, calls'[p].validity_days)]_vars

\* the step appends exactly one audit entry, of the given action
AppendsOne(action) ==
    /\ Len(audit_logs') = Len(audit_logs) + 1
    /\ SubSeq(audit_logs', 1, Len(audit_logs)) = audit_logs
    /\ audit_logs'[Len(audit_logs')].action = action

\* C15: each successful Login and each Logout that evicts a session token
\* appends exactly one audit entry; a Login with a wrong password appends
\* none.
C15_SessionsAudited ==
    [][\A p \in Procs :
        /\ (/\ calls[p].pc = "l_audit"
            /\ calls'[p].pc = "done"
            /\ calls'[p].response.code = 200)
            => AppendsOne("LOGIN")
        /\ (/\ calls[p].pc = "idle"
            /\ calls'[p].op = "login"
            /\ calls'[p].response.code = 401)
            => UNCHANGED <<audit_logs, active_tokens>>
        /\ (/\ calls[p].pc = "idle"
            /\ calls'[p].op = "logout"
            /\ active_tokens' # active_tokens)
            => AppendsOne("LOGOUT")]_vars

\* C16: whitelist mutations are audited one-for-one: whenever no call is in
\* progress there are as many WHITELIST_ADD entries as whitelist entries ever
\* inserted and as many WHITELIST_REMOVE entries as whitelist entries removed,
\* so a Remove whose id matches no entry appends nothing.
C16_WhitelistAuditedOneForOne ==
    Quiescent
    => /\ Cardinality(AuditsOf("WHITELIST_ADD")) = Len(device_whitelist)
       /\ Cardinality(AuditsOf("WHITELIST_REMOVE"))
            = Cardinality({i \in 1..Len(device_whitelist) : device_whitelist[i].deleted})

(***************************************************************************)
(* Properties of issuance (checked under SpecIssue).                       *)
(***************************************************************************)
\* the step appends one row to certificates
Stores == Len(certificates') = Len(certificates) + 1

\* the row the step appends
Stored == certificates'[Len(certificates')]

\* a stored certificate has a private key only if it has no request
KeyOnlyWithoutRequest ==
    \A i \in 1..Len(certificates) :
        certificates[i].private_key_pem => certificates[i].request_id = 0

\* C18: a stored certificate has a private key only if GenerateClientCertificate
\* created it (it has no request id); a certificate issued from a submitted
\* CSR, by an administrator's Approve or by auto-approval, is stored with the
\* id of its request and without a private key.
C18_KeyOnlyIfServerGenerated ==
    /\ []KeyOnlyWithoutRequest
    /\ [][\A p \in Procs :
            /\ (/\ calls[p].pc \in {"s_store", "a_store"}
                /\ calls'[p].pc \in {"s_issued", "a_issued"})
                => /\ Stores
                   /\ Stored.request_id = calls[p].request_id
                   /\ Stored.request_id # 0
                   /\ ~Stored.private_key_pem
            /\ (calls[p].pc = "idle" /\ calls'[p].pc = "c_audit")
                => /\ Stores
                   /\ Stored.request_id = 0
            /\ (Stores /\ Stored.private_key_pem)
                => \E q \in Procs : calls[q].pc = "idle" /\ calls'[q].op = "generate"]_vars

\* a generated certificate with its key and a certificate of a submitted CSR
\* without one are stored
C18_Witness ==
    \E i, j \in 1..Len(certificates) :
        /\ certificates[i].private_key_pem
        /\ certificates[i].request_id = 0
        /\ certificates[j].request_id # 0
        /\ ~certificates[j].private_key_pem

\* no two certificates in the store have the same serial number
SerialsUnique ==
    \A i, j \in Certs :
        certificates[i].serial_number = certificates[j].serial_number => i = j

\* C20: no two stored certificates have the same serial number, and the
\* attempt to store a certificate whose serial is present fails and leaves
\* the certificate store unchanged.
C20_SerialUnique ==
    /\ []SerialsUnique
    /\ [][/\ Stores => ~serial_taken(certificates, Stored.serial_number)
          /\ \A p \in Procs :
                (/\ calls[p].pc \in {"s_store", "a_store"}
                 /\ calls'[p] # calls[p]
                 /\ serial_taken(certificates, calls[p].serial_number))
                => /\ UNCHANGED certificates
                   /\ \/ calls'[p].pc = "s_except"
                      \/ calls'[p].response.code = 500]_vars

\* the automatic approval of a request has failed at the store of a
\* certificate whose serial another certificate has
C20_Witness ==
    \E p \in Procs :
        /\ calls[p].pc = "s_except"
        /\ serial_taken(certificates, calls[p].serial_number)
        /\ cert_of_request(certificates, calls[p].request_id) = 0

(***************************************************************************)
(* Properties of the whitelist (checked under SpecAdmin).                  *)
(***************************************************************************)
\* no two whitelist entries have the same device token
TokensUnique ==
    \A i, j \in 1..Len(device_whitelist) :
        (/\ ~device_whitelist[i].deleted
         /\ ~device_whitelist[j].deleted
         /\ device_whitelist[i].device_token = device_whitelist[j].device_token)
        => i = j

\* C26: no two whitelist entries share a device token: a step of an
\* AddWhitelistEntry that finds its token in the whitelist ends the call with
\* an error and leaves the whitelist and the audit log unchanged, also when
\* another AddWhitelistEntry has inserted the token since the call looked.
C26_WhitelistTokenUnique ==
    /\ []TokensUnique
    /\ [][\A p \in Procs :
            (/\ calls[p].pc \in {"w_start", "w_insert"}
             /\ calls'[p] # calls[p]
             /\ device_token_taken(device_whitelist, calls[p].device_token))
            => /\ UNCHANGED <<device_whitelist, audit_logs>>
               /\ calls'[p].pc = "done"
               /\ calls'[p].response.code \in {400, 500}]_vars

\* two AddWhitelistEntry calls with one token have interleaved: one has
\* inserted it, the other has failed at its own insert
C26_Witness ==
    \E p, q \in Procs :
        /\ calls[p].op = "whitelist_add" /\ calls[p].response.code = 200
        /\ calls[q].op = "whitelist_add" /\ calls[q].response.code = 500
        /\ Cardinality({i \in 1..Len(device_whitelist) : ~device_whitelist[i].deleted}) = 1

(***************************************************************************)
(* Properties of the list of pending requests (checked under SpecPending). *)
(***************************************************************************)
\* the ids of the pending requests, the last created first
PendingNewestFirst(reqs) ==
    LET pending == {i \in 1..Len(reqs) : reqs[i].status = PENDING}
        above(i) == Cardinality({j \in pending : j > i})
    IN  [k \in 1..Cardinality(pending) |-> CHOOSE i \in pending : above(i) = k - 1]

\* C27: ListPendingRequests returns exactly the requests that are pending at
\* the time of the read, each once, the most recently created first.
C27_ListPendingNewestFirst ==
    [][\A p \in Procs :
        (calls[p].pc = "idle" /\ calls'[p].op = "list_requests")
        => calls'[p].response.requests = PendingNewestFirst(csr_requests)]_vars

(***************************************************************************)
(* Properties of signing (checked under SpecSign).                         *)
(***************************************************************************)
\* the calls that have signed
Signed == {p \in Procs : calls[p].op \in {"submit_sign", "approve_sign"}}

\* the elements of a sequence
Elems(seq) == {seq[k] : k \in 1..Len(seq)}

\* the names the SAN of a signing is to hold: those of the CSR and the extra
\* names of the call
UnionOfNames(args) ==
    Elems(args.san)
    \cup {[kind |-> "ip", value |-> ip] : ip \in {i \in Elems(args.ips) : ip_address_ok(i)}}
    \cup {[kind |-> "dns", value |-> dns] : dns \in Elems(args.dns)}

\* C28: the SAN list of a signed certificate is the de-duplicated union of
\* the CSR's SAN entries and the extra names of the call: each of these names
\* once, and no other name, for either caller of sign_csr.
C28_SanIsDedupUnion ==
    \A p \in Signed :
        LET san == calls[p].response.x509.san
        IN  /\ Elems(san) = UnionOfNames(calls[p].sign_args)
            /\ \A i, j \in 1..Len(san) : san[i] = san[j] => i = j

\* the attributes of a subject that are no OU, in their order
WithoutOU(subject) ==
    LET no_ou(attr) == attr.oid # "OU"
    IN  SelectSeq(subject, no_ou)

\* C29: the subject of a signed certificate has exactly one OU attribute, the
\* device type of the call, whatever OUs the subject of the CSR had; the
\* other attributes of the CSR are kept, in their order.
C29_SubjectHasOneOU ==
    \A p \in Signed :
        LET subject == calls[p].response.x509.subject
            label == IF calls[p].op = "approve_sign"
                     THEN or_default(calls[p].sign_args.device_type, "Device")
                     ELSE "Device"
            ous == {k \in 1..Len(subject) : subject[k].oid = "OU"}
        IN  /\ Cardinality(ous) = 1
            /\ \A k \in ous : subject[k].value = label
            /\ WithoutOU(subject) = WithoutOU(calls[p].sign_args.subject)

\* a CSR with two OUs around another attribute has been signed
C29_Witness ==
    \E p \in Signed :
        /\ Len(calls[p].sign_args.subject) = 3
        /\ calls[p].sign_args.subject[1].oid = "OU"
        /\ calls[p].sign_args.subject[2].oid = "CN"
        /\ calls[p].sign_args.subject[3].oid = "OU"
        /\ calls[p].sign_args.device_type = "Developer"

\* C30: the key usage of a signed certificate follows its type: server has
\* digitalSignature and keyEncipherment with serverAuth and clientAuth, client
\* has digitalSignature with clientAuth, both has the union of the two; no
\* certificate is a CA or has keyCertSign or cRLSign.
C30_KeyUsageByCertType ==
    \A p \in Signed :
        LET cert == calls[p].response.x509
            cert_type == IF calls[p].op = "approve_sign"
                         THEN or_default(calls[p].sign_args.cert_type,
                                         calls[p].sign_args.req_cert_type)
                         ELSE or_default(calls[p].sign_args.cert_type, "server")
        IN  /\ cert_type = "server"
                => /\ cert.key_usage = {"digital_signature", "key_encipherment"}
                   /\ cert.extended_key_usage = {"serverAuth", "clientAuth"}
            /\ cert_type = "client"
                => /\ cert.key_usage = {"digital_signature"}
                   /\ cert.extended_key_usage = {"clientAuth"}
            /\ cert_type = "both"
                => /\ cert.key_usage
                        = {"digital_signature", "key_encipherment"} \cup {"digital_signature"}
                   /\ cert.extended_key_usage
                        = {"serverAuth", "clientAuth"} \cup {"clientAuth"}
            /\ ~cert.ca
            /\ cert.key_usage \cap {"key_cert_sign", "crl_sign"} = {}

\* a client certificate has been signed on an administrator's approval
C30_Witness ==
    \E p \in Signed :
        /\ calls[p].op = "approve_sign"
        /\ calls[p].sign_args.cert_type = "client"
        /\ calls[p].response.x509.key_usage = {"digital_signature"}

(***************************************************************************)
(* Properties of the sessions (checked under SpecSession).                 *)
(***************************************************************************)
\* verify_token concludes for call p in this step: it has returned True or
\* the call is answered.
Concludes(p) ==
    /\ calls[p].pc \in {"idle", "t_expiry", "t_evict"}
    /\ calls'[p].op = "verify"
    /\ \/ calls'[p].pc = "t_passed"
       \/ calls'[p].pc = "done" /\ calls'[p].response.code # 0

\* The call is refused with 401 and one of the given details.
Refused(call, details) ==
    /\ call.pc = "done"
    /\ call.response.code = 401
    /\ call.response.detail \in details

\* C21: Verify succeeds iff the token is in the session map and the current
\* time is not past its expiresAt; for a token not in the map it fails as
\* Unauthenticated; for a token past expiresAt it fails as Expired and
\* removes that token from the map, leaving all other tokens untouched.
C21_VerifyOutcome ==
    [][\A p \in Procs :
        Concludes(p) =>
            LET token == bearer_token(calls'[p].authorization)
                known == token_in(active_tokens, token)
                past == known /\ datetime_now > active_tokens[token]
            IN  /\ calls'[p].pc = "t_passed" <=> (known /\ ~past)
                /\ ~known => /\ Refused(calls'[p], {"Missing authorization", "Invalid token"})
                             /\ UNCHANGED active_tokens
                /\ past => /\ Refused(calls'[p], {"Token expired"})
                           /\ active_tokens' = [active_tokens EXCEPT ![token] = 0]]_vars

\* The logins that have returned a token.
Logins == {l \in Procs : calls[l].op = "login" /\ calls[l].response.code = 200}

\* The time (UTC) at which login l issued its token: 24 hours before the
\* expiry its response tells, which is on the local clock.
IssuedAt(l) ==
    calls[l].response.expires_at - timedelta_days(1) - settings.utc_offset

\* The token of login l is live: no Logout has named it and the process has
\* not been restarted since.
Live(l) ==
    /\ ~\E q \in Procs : /\ calls[q].op = "logout"
                         /\ calls[q].device_token = calls[l].response.detail
    /\ ~\E q \in Procs : q > l /\ calls[q].op = "restart"

\* C22: a token issued by Login at time t passes Verify at every time up to
\* t + 24h and at no time after it, as long as it has not been logged out and
\* the process has not restarted; a Login with a wrong password issues no
\* token and leaves the session map unchanged.
C22_TokenValidForOneDay ==
    [][/\ \A p \in Procs, l \in Logins :
            (/\ Concludes(p)
             /\ bearer_token(calls'[p].authorization) = calls[l].response.detail)
            => /\ (Live(l) /\ now <= IssuedAt(l) + TicksPerDay)
                    => calls'[p].pc = "t_passed"
               /\ now > IssuedAt(l) + TicksPerDay => calls'[p].pc # "t_passed"
       /\ \A p \in Procs :
            (/\ calls[p].pc = "idle"
             /\ calls'[p].op = "login"
             /\ calls'[p].response.code = 401)
            => /\ UNCHANGED active_tokens
               /\ calls'[p].response.detail \notin SessionTokens
               /\ calls'[p].response.expires_at = 0]_vars

\* A live token has passed Verify at the last moment of its 24 hours.
C22_Witness ==
    \E p \in Procs, l \in Logins :
        /\ calls[p].pc = "t_passed"
        /\ bearer_token(calls[p].authorization) = calls[l].response.detail
        /\ Live(l)
        /\ now = IssuedAt(l) + TicksPerDay

\* The calls that came before call p and are a Logout of the token, or a
\* restart that came after the login that issued it.
EndedBefore(p, token) ==
    \/ \E q \in Procs : /\ q < p
                        /\ calls[q].op = "logout"
                        /\ calls[q].device_token = token
    \/ \E q \in Procs, l \in Logins : /\ l < q /\ q < p
                                      /\ calls[q].op = "restart"
                                      /\ calls[l].response.detail = token

\* C23: after Logout(token) completes every later Verify of that token
\* fails: a token is never admitted again and no step moves the expiry of a
\* token; Logout of one token leaves every other session as it is; after a
\* restart of the process every token issued before it fails Verify.
C23_LogoutAndRestartEndSessions ==
    [][/\ \A p \in Procs :
            (/\ Concludes(p)
             /\ EndedBefore(p, bearer_token(calls'[p].authorization)))
            => calls'[p].pc # "t_passed"
       /\ \A token \in SessionTokens :
            active_tokens'[token] # active_tokens[token]
            => \/ active_tokens'[token] = 0
               \/ active_tokens[token] = 0 /\ token \notin IssuedTokens
       /\ \A p \in Procs, token \in SessionTokens :
            (/\ calls[p].pc = "idle"
             /\ calls'[p].op = "logout"
             /\ token # bearer_token(calls'[p].authorization))
            => active_tokens'[token] = active_tokens[token]]_vars

\* A Verify that came after the Logout of its token has been refused.
C23_Witness ==
    \E p \in Procs, l \in Logins :
        /\ calls[p].op = "verify"
        /\ calls[p].pc = "done"
        /\ calls[p].response.code = 401
        /\ bearer_token(calls[p].authorization) = calls[l].response.detail
        /\ \E q \in Procs : /\ q < p
                            /\ calls[q].op = "logout"
                            /\ calls[q].device_token = calls[l].response.detail

(***************************************************************************)
(* Properties of the guarded endpoints (checked under SpecAuth).           *)
(***************************************************************************)
\* The handlers of the administrative operations.
AdminOps ==
    {"list_requests", "approve", "reject", "revoke", "delete", "generate",
     "whitelist_add", "whitelist_remove", "get_logs"}

\* The header carries no token, a token that is not in the session map, or
\* one past its expiry.
BadToken(authorization) ==
    \/ authorization = <<>>
    \/ ~token_in(active_tokens, bearer_token(authorization))
    \/ datetime_now > active_tokens[bearer_token(authorization)]

\* The same of the state a step leads to.
BadTokenAfter(authorization) ==
    \/ authorization = <<>>
    \/ ~token_in(active_tokens', bearer_token(authorization))
    \/ datetime_now' > active_tokens'[bearer_token(authorization)]

\* The tables of the database.
Tables == <<csr_requests, certificates, device_whitelist, audit_logs>>

\* A handler runs only for a call whose verification has passed; a call whose
\* verification has not passed has ended refused.
HandlersRunVerified ==
    \A p \in Procs :
        /\ calls[p].op \in AdminOps => calls[p].verified
        /\ (calls[p].op = "verify" /\ calls[p].pc = "done")
            => /\ ~calls[p].verified
               /\ calls[p].response.code \in {401, 500}

\* C24: an administrative operation called with a missing, unknown or
\* expired session token is refused and mutates no state.  A call whose
\* token is bad stays so while it is verified and never passes; a handler
\* runs only for a call that has passed, a call that has not passed ends
\* refused, and every change of the requests, certificates, whitelist and
\* audit log is a step of a call that has passed or of a login.
C24_BadTokenRefusedNoMutation ==
    /\ []HandlersRunVerified
    /\ [][/\ \A p \in Procs :
                (/\ calls[p].pc \in {"idle", "t_expiry", "t_evict"}
                 /\ calls'[p].op = "verify"
                 /\ BadToken(calls'[p].authorization))
                => /\ BadTokenAfter(calls'[p].authorization)
                   /\ ~calls'[p].verified
                   /\ calls'[p].pc # "t_passed"
          /\ Tables' # Tables
                => \E p \in Procs : /\ calls'[p] # calls[p]
                                    /\ calls[p].verified \/ calls[p].pc = "l_audit"]_vars

\* A call with an expired token and a call without a token have been
\* refused.
C24_Witness ==
    \E p, q \in Procs :
        /\ calls[p].op = "verify"
        /\ Refused(calls[p], {"Token expired"})
        /\ calls[q].op = "verify"
        /\ Refused(calls[q], {"Missing authorization"})

(***************************************************************************)
(* Properties of the startup (checked under SpecStartup).                  *)
(***************************************************************************)
\* The service accepts call p: its handler answers it in this step, and not
\* with the 500 of an exception.
Accepted(p) ==
    /\ calls[p].pc # "done"
    /\ calls'[p].pc = "done"
    /\ calls'[p].op # "restart"
    /\ calls'[p].response.code \notin {0, 500}

\* C25: if loading the issuer certificate, key or chain fails at startup the
\* process halts: the service answers no operation while the CA is not
\* loaded, and no request loads the CA after startup.
C25_NoServiceWithoutCa ==
    [][/\ \A p \in Procs : Accepted(p) => ca_instance
       /\ (~ca_instance /\ ca_instance')
            => \E p \in Procs : calls[p].op # "restart" /\ calls'[p].op = "restart"]_vars

(***************************************************************************)
(* Properties of the validity period (checked under SpecIssue).            *)
(***************************************************************************)
\* the calls that hold a certificate sign_csr has returned and not yet stored
Holding == {p \in Procs : calls[p].pc \in {"s_store", "a_store"}}

\* the rows of certificates issued from a request
RequestCerts == {i \in 1..Len(certificates) : certificates[i].request_id # 0}

\* C31: the certificate sign_csr returns is valid for exactly validity_days
\* days (not_after - not_before), for the validity_days it was called with,
\* and the not_before and not_after of the certificate record are those of
\* the certificate.
C31_ValidityIsValidityDays ==
    /\ \A p \in Holding :
        /\ calls[p].cert_pem.not_after - calls[p].cert_pem.not_before
                = timedelta_days(calls[p].validity_days)
        /\ calls[p].not_before = calls[p].cert_pem.not_before
        /\ calls[p].not_after = calls[p].cert_pem.not_after
    /\ \A i \in RequestCerts :
        /\ certificates[i].cert_pem.not_after - certificates[i].cert_pem.not_before
                = timedelta_days(certificates[i].validity_days)
        /\ certificates[i].not_before = certificates[i].cert_pem.not_before
        /\ certificates[i].not_after = certificates[i].cert_pem.not_after

\* Two certificates issued from requests are on record, one signed for the 30
\* days of a whitelist entry and one for the 365 days of an approval.
C31_Witness ==
    \E i, j \in RequestCerts :
        /\ certificates[i].validity_days = 30
        /\ certificates[i].cert_pem.not_after
                = certificates[i].cert_pem.not_before + timedelta_days(30)
        /\ certificates[j].validity_days = 365
        /\ certificates[j].cert_pem.not_after
                = certificates[j].cert_pem.not_before + timedelta_days(365)

(***************************************************************************)
(* Properties of the names a caller supplies (checked under SpecSign).     *)
(***************************************************************************)
\* the signings whose caller supplied an IP that is no address
MalformedIp(p) ==
    /\ calls[p].op \in {"submit_sign", "approve_sign"}
    /\ \E k \in 1..Len(calls[p].sign_args.ips) : ~ip_address_ok(calls[p].sign_args.ips[k])

\* C32: a signing whose caller supplied an IP string that is no IP address
\* fails with a validation error (a 4xx answer) and issues no certificate.
C32_MalformedSanRejected ==
    \A p \in Procs :
        MalformedIp(p) =>
            /\ calls[p].response.code \in 400..499
            /\ calls[p].response.x509 = NoCert

(***************************************************************************)
(* Certificates and the status of their request (checked under Spec).      *)
(***************************************************************************)
\* C33: in every reachable state a certificate that names request r exists
\* only if request r has status approved; a pending or rejected request has
\* no certificate.
C33_CertificateOnlyIfApproved ==
    \A i \in RequestCerts :
        csr_requests[certificates[i].request_id].status = APPROVED

\* the submissions that auto-approve the request they have created, or have
\* done so and returned
AutoSubmits ==
    {p \in Procs :
        /\ calls[p].op = "submit"
        /\ calls[p].request_id # 0
        /\ \/ calls[p].auto_approve
           \/ calls[p].pc = "done" /\ calls[p].response.status # "pending"}

\* C34: whatever an administrator's Approve or Reject does meanwhile, the
\* request of an auto-approving Submit has at most one certificate, and when
\* the Submit has told the device "approved" the stored status is approved.
C34_AutoApprovalIsolated ==
    \A p \in AutoSubmits :
        /\ Cardinality(CertsOf(calls[p].request_id)) <= 1
        /\ (calls[p].pc = "done" /\ calls[p].response.status = APPROVED)
                => csr_requests[calls[p].request_id].status = APPROVED

(***************************************************************************)
(* CSRs with an invalid self-signature (checked under Spec).               *)
(***************************************************************************)
\* the requests whose CSR parses and carries an invalid self-signature
BadSignatureRequests ==
    {r \in Requests : /\ parse_csr_ok(csr_requests[r].csr_pem)
                      /\ csr_requests[r].csr_pem = "badsig"}

\* C35: Submit accepts a CSR whose self-signature is invalid (a request is
\* recorded for it), but that request never has status approved and no
\* certificate is stored for it, whether it is auto-approved or approved by
\* an administrator any number of times.
C35_BadSignatureNeverApproved ==
    \A r \in BadSignatureRequests :
        /\ csr_requests[r].status # APPROVED
        /\ \A i \in 1..Len(certificates) : certificates[i].request_id # r

\* A request with an invalid self-signature is on record and still pending
\* after an administrator's Approve of it has failed in the signing.
C35_Witness ==
    \E r \in BadSignatureRequests :
        /\ csr_requests[r].status = PENDING
        /\ \E p \in Procs :
            /\ calls[p].op = "approve"
            /\ calls[p].request_id = r
            /\ calls[p].pc = "done"
            /\ calls[p].response.code = 500
            /\ calls[p].response.detail = "Signing failed: sign_error"

(***************************************************************************)
(* Overrides of an approval (checked under SpecApprove).                   *)
(***************************************************************************)
\* the validity_days an approval is to sign with: those of the body when it
\* gives any, else those stored with the request
ExpectedDays(field, rid) ==
    IF field \in {<<>>, <<0>>} THEN csr_requests[rid].validity_days ELSE field[1]

\* C36: an Approve without validity_days in its body issues the certificate
\* with the validity_days stored on the request, an Approve with validity_days
\* issues it with those; no step changes the validity_days of a request record.
C36_ApproveUsesStoredUnlessOverridden ==
    /\ [][\A p \in Procs, rid \in Requests, field \in ApproveFields :
            (/\ ApproveRead(p, rid, CSRApproveRequest_validity_days(field))
             /\ calls'[p].pc = "a_approve")
                => calls'[p].validity_days = ExpectedDays(field, rid)]_vars
    /\ [][\A p \in Procs :
            ApproveStore(p) /\ calls'[p].pc = "a_issued"
                => /\ certificates'[Len(certificates')].request_id = calls[p].request_id
                   /\ certificates'[Len(certificates')].validity_days
                        = calls[p].validity_days]_vars
    /\ [][\A r \in Requests :
            csr_requests'[r].validity_days = csr_requests[r].validity_days]_vars

(***************************************************************************)
(* The extra IPs of an approval (checked under SpecSign).                  *)
(***************************************************************************)
\* the extra IPs an approval is to pass to the signing: those of the call
\* when it has any, else the SAN IPs of the request's CSR, else the address
\* of the device alone
ExtraIpsOf(args) ==
    IF args.ips # <<>> THEN args.ips
    ELSE IF \E k \in 1..Len(args.san) : args.san[k].kind = "ip"
         THEN parse_csr_san(args.san, "ip")
         ELSE <<DeviceIp>>

RemovedToken(token) ==
    \E i \in 1..Len(device_whitelist) :
        device_whitelist[i].deleted /\ device_whitelist[i].device_token = token

\* a removal leaves the requests and the certificates as they are
RemovalKeepsRecords ==
    \A p \in Procs, device_id \in WhitelistIds :
        WhitelistRemoveDelete(p, device_id) \/ WhitelistRemoveAudit(p)
            => UNCHANGED <<csr_requests, certificates>>

\* C38 (as claimed): every Submit that starts after the removal of an entry
\* with that entry's token is treated as carrying an unknown token: when
\* tokens are required it fails with the authorization error (HTTP 403) and
\* creates no record, and the whitelist never auto-approves it; a removal
\* changes no request and no certificate.
C38_RemovedTokenForbidden ==
    /\ [][\A p \in Procs :
            (SubmitStarts(p) /\ RemovedToken(calls[p].device_token))
            => /\ settings.require_device_token
                    => /\ calls'[p].pc = "done"
                       /\ calls'[p].response.code = 403
                       /\ UNCHANGED <<csr_requests, certificates, audit_logs,
                                      device_whitelist>>
               /\ calls'[p].pc # "done"
                    => /\ calls'[p].pc = "s_create"
                       /\ calls'[p].auto_approve = settings.auto_sign_enabled
                       /\ calls'[p].validity_days = default_validity_days]_vars
    /\ [][RemovalKeepsRecords]_vars

\* C38 (amended): after the removal of an entry, and until an entry with the
\* same token is added again, a Submit that starts with that token is treated
\* as carrying an unknown token.  When tokens are required it fails and
\* creates no record, with the authorization error (HTTP 403) when its CSR
\* parses and with the validation error (HTTP 400) otherwise; when they are
\* not required the whitelist neither updates an entry nor auto-approves the
\* request nor sets its validity.  A removal changes no request and no
\* certificate.
C38_RemovedTokenUnknown ==
    /\ [][\A p \in Procs :
            (/\ SubmitStarts(p)
             /\ RemovedToken(calls[p].device_token)
             /\ ~TokenInWhitelist(calls[p].device_token))
            => /\ settings.require_device_token
                    => /\ calls'[p].pc = "done"
                       /\ calls'[p].response.code
                            = (IF parse_csr_ok(calls[p].csr) THEN 403 ELSE 400)
                       /\ UNCHANGED <<csr_requests, certificates, audit_logs,
                                      device_whitelist>>
               /\ ~parse_csr_ok(calls[p].csr)
                    => calls'[p].pc = "done" /\ calls'[p].response.code = 400
               /\ calls'[p].pc # "done"
                    => /\ calls'[p].pc = "s_create"
                       /\ calls'[p].auto_approve = settings.auto_sign_enabled
                       /\ calls'[p].validity_days = default_validity_days]_vars
    /\ [][RemovalKeepsRecords]_vars

\* With tokens required, the entry of the token was removed, the removal is
\* audited, and a Submit that started afterwards with that token and a CSR
\* that parses was refused with 403; no request is on record.
C38_Witness ==
    /\ settings.require_device_token
    /\ RemovedToken(LifecycleToken)
    /\ ~TokenInWhitelist(LifecycleToken)
    /\ \E k \in 1..Len(audit_logs) : audit_logs[k].action = "WHITELIST_REMOVE"
    /\ \E p \in Procs :
        /\ calls[p].op = "submit" /\ calls[p].pc = "done"
        /\ calls[p].response.code = 403
        /\ calls[p].response.detail = "Device token not in whitelist"
    /\ csr_requests = <<>>

(***************************************************************************)
(* The listing of client certificates (checked under SpecClients).         *)
(***************************************************************************)
\* the certificates generate_client_cert has stored: those without a request
GeneratedCerts ==
    {i \in get_all_certificates(certificates) : certificates[i].request_id = 0}

\* C39: the listing of client certificates returns exactly the certificates
\* stored by the generation of client certificates; a certificate issued from
\* a submitted CSR is not in it, whatever device_id the device supplied.
C39_ListingIsGeneratedCerts ==
    [][\A p \in Procs :
        ListClientCerts(p) => calls'[p].response.client_certs = GeneratedCerts]_vars

====
